---- MODULE Spec2Model ----
(***************************************************************************)
(* Model of pkg/pdutil/pd.go: the PdController that pauses PD schedulers   *)
(* and overrides PD schedule config around a bulk operation, the renewal   *)
(* goroutine that keeps the pause alive, and the undo function that        *)
(* resumes the schedulers and restores the config.                         *)
(*                                                                         *)
(* The caller is one thread that runs RemoveSchedulers, then the undo      *)
(* function it returned, session after session, and may Close the          *)
(* controller between two calls.  Every HTTP round trip is one step; the   *)
(* renewal goroutines interleave with the caller at that grain.            *)
(***************************************************************************)
EXTENDS Integers, Sequences, FiniteSets, TLC

\* ------------------------------------------------------------------ bounds

\* Number of RemoveSchedulers/undo sessions the caller runs on one controller.
MaxSessions == 2

\* Largest number of stores GetAllStores reports.
MaxStores == 2

\* Largest components of the versions isPauseConfigEnabled is called with.
MaxMajor == 5
MaxMinor == 1
MaxPatch == 9

\* Longest generated version string, and most addresses in pdAddrs.
MaxVersionLen == 5
MaxAddrs == 3

\* Largest number of stores and largest schedule limit the override map is
\* computed for.
MaxLiveStores == 20
MaxLimit == 45

\* Most NextBackoff calls made on one backoffer.
MaxCalls == 42

\* The ticks of a renewal goroutine that are counted.
MaxTicks == 3

\* The controller's address list p.addrs (after construction).
addrs == <<"pd0", "pd1">>

\* ------------------------------------------------------------------ values

\* A decoded JSON value of map[string]interface{}: number, string or null.
Num(n) == [t |-> "num", n |-> n, s |-> ""]
Str(s) == [t |-> "str", n |-> 0, s |-> s]
Null == [t |-> "null", n |-> 0, s |-> ""]

EmptyMap == [k \in {} |-> Null]

Min(a, b) == IF a < b THEN a ELSE b

\* pauseTimeout, in seconds (5 * time.Minute).
pauseTimeout == 300

\* Capacity of schedulerPauseCh: make(chan struct{}, 1).
schedulerPauseChCap == 1

\* pauseConfigVersion = semver.Version{Major: 4, Minor: 0, Patch: 8}
pauseConfigVersion == <<4, 0, 8>>

\* The allow-list of schedulers that may be paused.
Schedulers ==
    { "balance-leader-scheduler", "balance-hot-region-scheduler",
      "balance-region-scheduler", "shuffle-leader-scheduler",
      "shuffle-region-scheduler", "shuffle-hot-region-scheduler" }

\* The policy table: config key -> pauseConfigExpectation.
expectPDCfg ==
    [k \in { "max-merge-region-keys", "max-merge-region-size",
             "leader-schedule-limit", "region-schedule-limit",
             "max-snapshot-count", "enable-location-replacement" } |->
        CASE k \in {"max-merge-region-keys", "max-merge-region-size"} -> "pauseConfigSetZero"
          [] k = "enable-location-replacement" -> "pauseConfigSetFalse"
          [] OTHER -> "pauseConfigMulStoresCount"]

\* semver.Version.Compare on three-component versions: -1, 0 or 1.
Compare(a, b) ==
    IF a[1] # b[1] THEN (IF a[1] < b[1] THEN -1 ELSE 1)
    ELSE IF a[2] # b[2] THEN (IF a[2] < b[2] THEN -1 ELSE 1)
    ELSE IF a[3] # b[3] THEN (IF a[3] < b[3] THEN -1 ELSE 1)
    ELSE 0

\* ---- parseVersion: strings are sequences of one-character strings

\* strings.TrimLeft / TrimRight by a set of characters.
RECURSIVE TrimLeft(_, _)
TrimLeft(str, cutset) ==
    IF Len(str) > 0 /\ str[1] \in cutset THEN TrimLeft(Tail(str), cutset) ELSE str

RECURSIVE TrimRight(_, _)
TrimRight(str, cutset) ==
    IF Len(str) > 0 /\ str[Len(str)] \in cutset
    THEN TrimRight(SubSeq(str, 1, Len(str) - 1), cutset)
    ELSE str

\* strings.TrimSpace, strings.Trim(v, cutset), strings.TrimPrefix(v, prefix).
TrimSpace(str) == TrimRight(TrimLeft(str, {" ", "\n", "\t", "\r"}), {" ", "\n", "\t", "\r"})

Trim(str, cutset) == TrimRight(TrimLeft(str, cutset), cutset)

TrimPrefix(str, prefix) ==
    IF Len(str) >= Len(prefix) /\ SubSeq(str, 1, Len(prefix)) = prefix
    THEN SubSeq(str, Len(prefix) + 1, Len(str))
    ELSE str

\* strings.Index for one character: 0 when it does not occur.
IndexOf(str, c) ==
    IF \E i \in 1..Len(str) : str[i] = c
    THEN CHOOSE i \in 1..Len(str) : str[i] = c /\ \A j \in 1..(i - 1) : str[j] # c
    ELSE 0

\* semver's splitOff: the string up to the first c, and what follows it.
splitOff(str, c) ==
    LET i == IndexOf(str, c)
    IN  IF i = 0 THEN [head |-> str, off |-> <<>>]
        ELSE [head |-> SubSeq(str, 1, i - 1), off |-> SubSeq(str, i + 1, Len(str))]

\* strings.SplitN(version, ".", 3).
SplitN3(str) ==
    LET a == splitOff(str, ".")
        b == splitOff(a.off, ".")
    IN  IF IndexOf(str, ".") = 0 THEN <<str>>
        ELSE IF IndexOf(a.off, ".") = 0 THEN <<a.head, a.off>>
        ELSE <<a.head, b.head, b.off>>

IsDigit(c) == c \in {"0", "1", "2", "3", "4", "5", "6", "7", "8", "9"}

DigitValue(c) ==
    CASE c = "0" -> 0 [] c = "1" -> 1 [] c = "2" -> 2 [] c = "3" -> 3 [] c = "4" -> 4
      [] c = "5" -> 5 [] c = "6" -> 6 [] c = "7" -> 7 [] c = "8" -> 8 [] OTHER -> 9

\* strconv.ParseInt(v, 10, 64) of a string without sign: ok and the value.
RECURSIVE DecimalValue(_)
DecimalValue(str) ==
    IF Len(str) = 0 THEN 0
    ELSE 10 * DecimalValue(SubSeq(str, 1, Len(str) - 1)) + DigitValue(str[Len(str)])

ParseInt(str) ==
    [ok |-> Len(str) > 0 /\ \A i \in 1..Len(str) : IsDigit(str[i]),
     val |-> IF Len(str) > 0 /\ \A i \in 1..Len(str) : IsDigit(str[i])
             THEN DecimalValue(str) ELSE 0]

\* semver.NewVersion: metadata after "+" and pre-release after "-" are split
\* off, what is left must be three dotted decimal numbers.
NewVersion(str) ==
    LET core == splitOff(splitOff(str, "+").head, "-")
        dotParts == SplitN3(core.head)
    IN  IF Len(dotParts) = 3 /\ \A i \in 1..3 : ParseInt(dotParts[i]).ok
        THEN [ok |-> TRUE, pre |-> core.off,
              v |-> <<ParseInt(dotParts[1]).val, ParseInt(dotParts[2]).val,
                      ParseInt(dotParts[3]).val>>]
        ELSE [ok |-> FALSE, pre |-> <<>>, v |-> <<0, 0, 0>>]

\* A fallback to the threshold version instead of 0.0.0.
parseVersion_fallbackEnabled(versionBytes) ==
    LET r == NewVersion(TrimPrefix(Trim(TrimSpace(versionBytes), {"\""}), <<"v">>))
    IN  IF r.ok THEN r.v ELSE <<4, 0, 8>>

\* parseVersion, lines 213-231 (the failpoint of lines 224-229 is off).
parseVersion(versionBytes) ==
    LET r == NewVersion(TrimPrefix(Trim(TrimSpace(versionBytes), {"\""}), <<"v">>))
    IN  IF r.ok THEN r.v ELSE <<0, 0, 0>>

\* A test that takes the threshold version itself for too old.
isPauseConfigEnabled_above(v) == Compare(v, pauseConfigVersion) > 0

\* isPauseConfigEnabled, lines 233-235.
isPauseConfigEnabled(v) == Compare(v, pauseConfigVersion) >= 0

\* ------------------------------------------------------- inputs (bounded)

\* Schedule configs the control plane holds before the first session.
defaultCfg == [k \in {"max-merge-region-keys"} |-> Num(200000)]

mixedCfg ==
    [k \in { "max-merge-region-size", "region-schedule-limit",
             "enable-location-replacement", "replica-schedule-limit" } |->
        CASE k = "max-merge-region-size" -> Null
          [] k = "region-schedule-limit" -> Num(30)
          [] k = "enable-location-replacement" -> Str("true")
          [] OTHER -> Num(64)]

\* Scheduler lists the control plane reports (GET schedulers).
threeSchedulers ==
    <<"balance-leader-scheduler", "evict-leader-scheduler", "balance-region-scheduler">>

oneScheduler == <<"evict-leader-scheduler">>

\* The clusters a controller is constructed against: the version the control
\* plane reports, its schedule config and its schedulers.
Clusters ==
    [ version : {<<4, 0, 7>>, <<4, 0, 8>>},
      cfg : {defaultCfg, mixedCfg},
      schedulers : {threeSchedulers, oneScheduler} ]

\* The versions isPauseConfigEnabled is called with.
Versions ==
    {<<a, b, c>> : a \in 0..MaxMajor, b \in 0..MaxMinor, c \in 0..MaxPatch}

\* The value defaultPDCfg gives a key, and one for a key outside the table.
defaultPDCfg(k) ==
    CASE k = "max-merge-region-keys" -> Num(200000)
      [] k = "max-merge-region-size" -> Num(20)
      [] k = "leader-schedule-limit" -> Num(4)
      [] k = "region-schedule-limit" -> Num(2048)
      [] k = "max-snapshot-count" -> Num(3)
      [] k = "enable-location-replacement" -> Str("true")
      [] OTHER -> Num(64)

\* The configs the override map is computed from: every subset of the keys
\* of the policy table and of one key outside it, at their default values;
\* every leader-schedule-limit up to MaxLimit; a null and a string value.
FetchedCfgs ==
    {[k \in K |-> defaultPDCfg(k)] :
        K \in SUBSET (DOMAIN expectPDCfg \cup {"replica-schedule-limit"})}
    \cup {[k \in {"leader-schedule-limit"} |-> Num(v)] : v \in 0..MaxLimit}
    \cup {mixedCfg, [k \in {"leader-schedule-limit"} |-> Str("4")]}

\* Version strings the control plane answers, as sequences of characters:
\* "\"v4.0.8\"\n", "4.0.7", "v5.0.0", "not-a-version", "", "4.0", "4.0.8.1",
\* " 4.1.0 ", "v", "vv4.0.8", "4..8", "x.y.z", "\"\"4.0.9\"\"", "4.0.10",
\* "04.00.08", "3.9.9".  None carries a pre-release tag.
SomeVersionBytes ==
    { <<"\"", "v", "4", ".", "0", ".", "8", "\"", "\n">>,
      <<"4", ".", "0", ".", "7">>,
      <<"v", "5", ".", "0", ".", "0">>,
      <<"n", "o", "t", "-", "a", "-", "v", "e", "r", "s", "i", "o", "n">>,
      <<>>,
      <<"4", ".", "0">>,
      <<"4", ".", "0", ".", "8", ".", "1">>,
      <<" ", "4", ".", "1", ".", "0", " ">>,
      <<"v">>,
      <<"v", "v", "4", ".", "0", ".", "8">>,
      <<"4", ".", ".", "8">>,
      <<"x", ".", "y", ".", "z">>,
      <<"\"", "\"", "4", ".", "0", ".", "9", "\"", "\"">>,
      <<"4", ".", "0", ".", "1", "0">>,
      <<"0", "4", ".", "0", "0", ".", "0", "8">>,
      <<"3", ".", "9", ".", "9">> }

\* Every string of at most MaxVersionLen characters over "4", "." and "v".
RECURSIVE StringsUpTo(_)
StringsUpTo(n) ==
    IF n = 0 THEN {<<>>}
    ELSE StringsUpTo(n - 1)
         \cup {Append(x, c) : x \in {y \in StringsUpTo(n - 1) : Len(y) = n - 1},
                              c \in {"4", ".", "v"}}

VersionBytes == SomeVersionBytes \cup StringsUpTo(MaxVersionLen)

\* The address lists NewPdController is given (pdAddrs, split at ","): the
\* i-th address is host i, written with or without a scheme.
PdAddrs ==
    UNION {{[i \in 1..n |-> [scheme |-> f[i], host |-> i]] :
                f \in [1..n -> {"", "http://"}]} : n \in 1..MaxAddrs}

\* What the control plane answers at each address of one failover request.
Responses == [1..Len(addrs) -> BOOLEAN]


\* ------------------------------------------------- pure parts of the code

\* One failover loop over p.addrs: each address is tried in order until one
\* answers without error.  tried = number of addresses a request was sent to.
Failover(resp) ==
    LET hits == {i \in 1..Len(addrs) : resp[i]}
        first == IF hits = {} THEN 0 ELSE CHOOSE i \in hits : \A j \in hits : i <= j
    IN  [ok |-> hits # {}, tried |-> IF hits = {} THEN Len(addrs) ELSE first]

AllFail == [i \in 1..Len(addrs) |-> FALSE]

\* A selection that keeps every listed scheduler.
needRemoveSchedulers_all(existSchedulers) == existSchedulers

\* RemoveSchedulers, lines 568-573: the listed schedulers that are allow-listed.
needRemoveSchedulers(existSchedulers) ==
    SelectSeq(existSchedulers, LAMBDA s : s \in Schedulers)

\* RemoveSchedulers, line 556: value.(float64) faults unless value is a number.
assertionPanics(scheduleCfg) ==
    \E k \in DOMAIN expectPDCfg \cap DOMAIN scheduleCfg :
        expectPDCfg[k] = "pauseConfigMulStoresCount" /\ scheduleCfg[k].t # "num"

\* A product that is not capped.
mulStoresCount_uncapped(limit, nStores) == limit * nStores

\* RemoveSchedulers, lines 556-557: math.Min(40, float64(limit*len(stores))).
mulStoresCount(limit, nStores) == Min(40, limit * nStores)

\* An override map with the boolean false where the string is required.
disablePDCfg_boolFalse(scheduleCfg, nStores) ==
    [k \in DOMAIN expectPDCfg \cap DOMAIN scheduleCfg |->
        CASE expectPDCfg[k] = "pauseConfigSetZero" -> Num(0)
          [] expectPDCfg[k] = "pauseConfigSetFalse" -> [t |-> "bool", n |-> 0, s |-> ""]
          [] OTHER -> Num(mulStoresCount(scheduleCfg[k].n, nStores))]

\* RemoveSchedulers, lines 541-559: the override map.
disablePDCfg(scheduleCfg, nStores) ==
    [k \in DOMAIN expectPDCfg \cap DOMAIN scheduleCfg |->
        CASE expectPDCfg[k] = "pauseConfigSetZero" -> Num(0)
          [] expectPDCfg[k] = "pauseConfigSetFalse" -> Str("false")
          [] OTHER -> Num(mulStoresCount(scheduleCfg[k].n, nStores))]

\* A restore that fills the keys the snapshot lacks, as from defaultPDCfg.
mergeCfg_withDefaults(scheduleCfg) ==
    [k \in DOMAIN expectPDCfg |->
        IF k \in DOMAIN scheduleCfg THEN scheduleCfg[k] ELSE Num(0)]

\* restoreSchedulers, lines 501-509: the keys of the policy table whose saved
\* value is not nil (a missing key and a JSON null both read as nil).
mergeCfg(scheduleCfg) ==
    [k \in {x \in DOMAIN expectPDCfg \cap DOMAIN scheduleCfg : scheduleCfg[x].t # "null"} |->
        scheduleCfg[k]]

\* A first handle that restores an empty snapshot instead of doing nothing.
Nop_restoring == [nop |-> FALSE, scheduler |-> <<>>, scheduleCfg |-> EmptyMap]

\* The undo handles: Nop, and makeUndoFunctionByConfig(clusterConfig{...}).
Nop == [nop |-> TRUE, scheduler |-> <<>>, scheduleCfg |-> EmptyMap]

makeUndoFunctionByConfig(scheduler, scheduleCfg) ==
    [nop |-> FALSE, scheduler |-> scheduler, scheduleCfg |-> scheduleCfg]

\* A schedulerCfg argument of pauseSchedulersAndConfigWith: nil or a map.
NilCfg == [isNil |-> TRUE, m |-> EmptyMap]
SomeCfg(m) == [isNil |-> FALSE, m |-> m]

\* --------------------------------------------- the control plane's answers

\* a map overwritten by the body of a POST
Merge(cfg, body) ==
    [k \in DOMAIN cfg \cup DOMAIN body |-> IF k \in DOMAIN body THEN body[k] ELSE cfg[k]]

\* a map without the keys of the body of a POST
Without(cfg, body) == [k \in DOMAIN cfg \ DOMAIN body |-> cfg[k]]

\* POST config/schedule[?ttlSecond=N].  prefixs is the variadic argument of
\* doUpdatePDScheduleConfig: <<>> posts to config/schedule and writes the
\* permanent config; <<n>> posts to config/schedule?ttlSecond=n, which for
\* n > 0 writes a temporary override of the keys of the body and for n = 0
\* invalidates the temporary override of the keys of the body.
PostConfig(perm, tmp, body, prefixs) ==
    IF Len(prefixs) = 0 THEN [perm |-> Merge(perm, body), tmp |-> tmp]
    ELSE IF prefixs[1] = 0 THEN [perm |-> perm, tmp |-> Without(tmp, body)]
    ELSE [perm |-> perm, tmp |-> Merge(tmp, body)]

\* POST schedulers/<name> {"delay": d}: d > 0 pauses, d = 0 resumes.
PostScheduler(paused, name, delay) ==
    IF delay > 0 THEN paused \cup {name} ELSE paused \ {name}

\* The value the control plane schedules by: the temporary override if any.
Effective(perm, tmp) == Merge(perm, tmp)


\* ------------------------------------------------------------------ state

VARIABLES
    version,            \* PdController.version
    chLen,              \* number of values buffered in schedulerPauseCh
    chClosed,           \* schedulerPauseCh has been closed
    cpSchedulers,       \* control plane: the schedulers it lists
    cpPaused,           \* control plane: the schedulers currently paused
    cpPerm,             \* control plane: the permanent schedule config
    cpTmp,              \* control plane: the temporary (ttl) overrides
    pc,                 \* where the caller's thread is
    sid,                \* the number of the current session
    ctxDone,            \* the context the caller runs RemoveSchedulers under is cancelled
    stores,             \* RemoveSchedulers: len(stores)
    scheduleCfg,        \* RemoveSchedulers: the fetched config
    schedulers,         \* pauseSchedulersAndConfigWith: the schedulers argument
    schedulerCfg,       \* pauseSchedulersAndConfigWith: the schedulerCfg argument
    removedSchedulers,  \* doPauseSchedulers: the schedulers paused so far
    idx,                \* position of the caller's loop over schedulers
    undo,               \* the undo handle RemoveSchedulers returned
    err,                \* the error RemoveSchedulers returned, "nil" if none
    undoErr,            \* the error undo returned, "nil" if none
    task,               \* task[s]: the renewal goroutine started by session s
    ret,                \* the value the last call of a pure function returned
    bo,                 \* a utils.Backoffer of pkg/restore: its fields
    timers,             \* the ticker of the goroutine and the control plane's expiry timers
    h                   \* history of the current session, for the properties

ctlVars == <<version, chLen, chClosed>>
cpVars == <<cpSchedulers, cpPaused, cpPerm, cpTmp>>
rsVars == <<stores, scheduleCfg, schedulers, schedulerCfg, removedSchedulers, idx>>
vars == <<timers, version, chLen, chClosed, cpSchedulers, cpPaused, cpPerm, cpTmp, pc, sid,
          ctxDone, stores, scheduleCfg, schedulers, schedulerCfg, removedSchedulers,
          idx, undo, err, undoErr, task, ret, bo, h>>

Sessions == 1..MaxSessions

\* The value a call returned: a bool (b) or a map (m), by the function (f).
NoRet == [f |-> "", b |-> FALSE, m |-> EmptyMap]

\* No backoffer has been made.
NoBackoffer == [kind |-> "", attempt |-> 0, delayTime |-> <<0, 0, 0, 0>>,
                maxDelayTime |-> <<0, 0, 0, 0>>]

\* task[s].stopSent: undo of session s has sent its stop signal;
\* task[s].lateTick: the goroutine has taken a tick since then.
NoTask == [pc |-> "none", idx |-> 0, stopSent |-> FALSE, lateTick |-> FALSE,
           schedulers |-> <<>>, schedulerCfg |-> NilCfg]

\* Time is counted in seconds.  timers.tick: the time until the ticker of the
\* goroutine fires next, 0 when there is no ticker; timers.tickC: a tick is
\* waiting in tick.C; timers.lease[n]: the time the pause of scheduler n has
\* left at the control plane, 0 when it is not paused; timers.ttl: the time
\* the temporary override has left; timers.lapsed: a pause or an override
\* has run out; timers.pass: the time the requests of the pass under way
\* have taken; timers.slowPass: the requests of some pass took tickPeriod or
\* more; timers.ticks: the ticks the goroutine has taken, up to MaxTicks.
NoTimers == [tick |-> 0, tickC |-> FALSE, lease |-> [n \in Schedulers |-> 0], ttl |-> 0,
             lapsed |-> FALSE, pass |-> 0, slowPass |-> FALSE, ticks |-> 0]

\* History of one session: what the control plane saw and answered.
NewHistory(prior) ==
    [ prior |-> prior,          \* the effective config when the session began
      allOk |-> TRUE,           \* every request since the session began succeeded
      captured |-> EmptyMap,    \* the config the control plane answered at capture
      overridden |-> {},        \* keys an override request of the caller was applied to
      paused |-> {},            \* schedulers a first-pass pause request succeeded for
      passFailed |-> FALSE,     \* a first-pass request failed on every address
      resumeTried |-> <<>>,     \* schedulers a resume request was sent for, in order
      resumeFailed |-> {},      \* schedulers whose resume request failed on every address
      pauseTried |-> {},        \* schedulers a first-pass pause request was sent for
      pauseReturned |-> <<>>,   \* the list doPauseSchedulers returned in the first pass
      overridePosts |-> <<>>,   \* the prefixs of the override requests RemoveSchedulers sent
      restorePosts |-> <<>>,    \* the config-restore requests sent: [body, prefixs]
      restoreFailed |-> FALSE ] \* the config-restore request failed on every address

Init ==
    /\ \E c \in Clusters :
        /\ version = c.version
        /\ cpSchedulers = c.schedulers
        /\ cpPerm = c.cfg
    /\ chLen = 0
    /\ chClosed = FALSE
    /\ cpPaused = {}
    /\ cpTmp = EmptyMap
    /\ pc = "idle"
    /\ sid = 0
    /\ ctxDone = FALSE
    /\ stores = 0
    /\ scheduleCfg = EmptyMap
    /\ schedulers = <<>>
    /\ schedulerCfg = NilCfg
    /\ removedSchedulers = <<>>
    /\ idx = 0
    /\ undo = Nop
    /\ err = "nil"
    /\ undoErr = "nil"
    /\ task = [s \in Sessions |-> NoTask]
    /\ ret = NoRet
    /\ bo = NoBackoffer
    /\ timers = NoTimers
    /\ h = NewHistory(cpPerm)

\* The answers a request made under the caller's context can get: a request
\* under a cancelled context fails at once.
CtxResponses == IF ctxDone THEN {AllFail} ELSE Responses


\* ------------------------------------------------------- RemoveSchedulers

\* An override written without ttl, as on a legacy control plane.
pausePrefix_permanent == <<>>

\* doPauseConfigs, lines 491-493: the prefix config/schedule?ttlSecond=300.
pausePrefix == <<pauseTimeout>>

\* pauseSchedulersAndConfigWith, lines 336-352: where the first pass goes
\* when it is entered with these arguments.
enterPause(scheds, cfg) ==
    IF Len(scheds) > 0 THEN "doPauseSchedulers"
    ELSE IF ~cfg.isNil THEN "doPauseConfigs"
    ELSE "go"

\* A first pass that goes on after a failed request, as a renewal tick does.
afterFirstPause_ignoringFailure(ok, atEnd, cfg) ==
    IF ~atEnd THEN "doPauseSchedulers"
    ELSE IF ~cfg.isNil THEN "doPauseConfigs"
    ELSE "go"

\* pauseSchedulersAndConfigWith, lines 336-343, with the loop of
\* doPauseSchedulers, lines 314-326: where the first pass goes after the
\* request for one scheduler; a request that failed on every address ends it.
afterFirstPause(ok, atEnd, cfg) ==
    IF ~ok THEN "held"
    ELSE IF ~atEnd THEN "doPauseSchedulers"
    ELSE IF ~cfg.isNil THEN "doPauseConfigs"
    ELSE "go"

\* pauseSchedulersAndConfigWith, lines 344-352: where the first pass goes
\* after the first ttl override.
afterFirstPauseConfigs(ok) == IF ok THEN "go" ELSE "held"

\* pauseSchedulersAndConfigWith, lines 340 and 348: the list returned with an
\* error is nil, whatever doPauseSchedulers had paused.
removedOnError(removed) == <<>>

\* The locals of RemoveSchedulers and of the first pass.
Locals(st, cfg, scheds, scfg, removed, i) ==
    /\ stores' = st
    /\ scheduleCfg' = cfg
    /\ schedulers' = scheds
    /\ schedulerCfg' = scfg
    /\ removedSchedulers' = removed
    /\ idx' = i

\* RemoveSchedulers returns (undo, err) to the caller; its locals are gone.
Return(u, e) ==
    /\ undo' = u
    /\ err' = e
    /\ pc' = "held"
    /\ Locals(0, EmptyMap, <<>>, NilCfg, <<>>, 0)

\* RemoveSchedulers, lines 532-536: list the stores.  A new session begins.
RemoveSchedulers_GetAllStores ==
    /\ pc \in {"idle", "undone"}
    /\ ~chClosed
    /\ sid < MaxSessions
    /\ sid' = sid + 1
    /\ undoErr' = "nil"
    /\ \E ok \in (IF ctxDone THEN {FALSE} ELSE BOOLEAN), n \in 0..MaxStores :
        /\ h' = [NewHistory(Effective(cpPerm, cpTmp)) EXCEPT !.allOk = ok]
        /\ IF ok
           THEN /\ undo' = Nop
                /\ err' = "nil"
                /\ pc' = "GetPDScheduleConfig"
                /\ Locals(n, EmptyMap, <<>>, NilCfg, <<>>, 0)
           ELSE /\ n = 0
                /\ Return(Nop, "GetAllStores")
    /\ UNCHANGED <<timers, ret, bo, ctlVars, cpVars, ctxDone, task>>

\* RemoveSchedulers, lines 537-561: fetch the config, compute the override
\* and capture the snapshot in a first undo handle.
RemoveSchedulers_GetPDScheduleConfig ==
    /\ pc = "GetPDScheduleConfig"
    /\ \E resp \in CtxResponses :
        /\ h' = [h EXCEPT !.allOk = @ /\ resp[1],
                          !.captured = IF Failover(resp).ok THEN cpPerm ELSE @]
        /\ IF ~Failover(resp).ok
           THEN Return(undo, "GetPDScheduleConfig")
           ELSE /\ scheduleCfg' = cpPerm
                /\ IF assertionPanics(cpPerm)
                   THEN pc' = "panic" /\ UNCHANGED undo
                   ELSE /\ undo' = makeUndoFunctionByConfig(<<>>, cpPerm)
                        /\ pc' = "ListSchedulers"
                /\ UNCHANGED <<err, stores, schedulers, schedulerCfg, removedSchedulers, idx>>
    /\ UNCHANGED <<timers, ret, bo, ctlVars, cpVars, sid, ctxDone, undoErr, task>>

\* RemoveSchedulers, lines 563-587: list the schedulers, keep the allow-listed
\* ones, and choose the strategy by the version.
RemoveSchedulers_ListSchedulers ==
    /\ pc = "ListSchedulers"
    /\ \E resp \in CtxResponses :
        /\ h' = [h EXCEPT !.allOk = @ /\ resp[1]]
        /\ IF ~Failover(resp).ok
           THEN Return(undo, "ListSchedulers")
           ELSE /\ schedulers' = needRemoveSchedulers(cpSchedulers)
                /\ idx' = 1
                /\ IF isPauseConfigEnabled(version)
                   THEN /\ schedulerCfg' = SomeCfg(disablePDCfg(scheduleCfg, stores))
                        /\ pc' = enterPause(schedulers', schedulerCfg')
                   ELSE /\ schedulerCfg' = NilCfg
                        /\ pc' = "doUpdatePDScheduleConfig"
                /\ UNCHANGED <<undo, err, stores, scheduleCfg, removedSchedulers>>
    /\ UNCHANGED <<timers, ret, bo, ctlVars, cpVars, sid, ctxDone, undoErr, task>>

\* RemoveSchedulers, lines 582-585: the permanent override of a legacy control plane.
RemoveSchedulers_doUpdatePDScheduleConfig ==
    /\ pc = "doUpdatePDScheduleConfig"
    /\ \E resp \in CtxResponses :
        LET body == disablePDCfg(scheduleCfg, stores)
            ok == Failover(resp).ok
        IN  /\ h' = [h EXCEPT !.allOk = @ /\ resp[1],
                              !.overridden = IF ok THEN @ \cup DOMAIN body ELSE @,
                              !.overridePosts = Append(@, <<>>)]
            /\ IF ok
               THEN /\ cpPerm' = PostConfig(cpPerm, cpTmp, body, <<>>).perm
                    /\ pc' = enterPause(schedulers, NilCfg)
                    /\ UNCHANGED <<undo, err, rsVars>>
               ELSE /\ Return(undo, "doUpdatePDScheduleConfig")
                    /\ UNCHANGED cpPerm
    /\ UNCHANGED <<timers, ret, bo, ctlVars, cpSchedulers, cpPaused, cpTmp, sid, ctxDone, undoErr, task>>

\* doPauseSchedulers, lines 314-326, called from line 336: the pause request
\* of the first pass for schedulers[idx].  On failure RemoveSchedulers, line
\* 588, returns the handle made of what pauseSchedulersAndConfigWith returned.
Pause_doPauseSchedulers ==
    /\ pc = "doPauseSchedulers"
    /\ \E resp \in CtxResponses :
        LET name == schedulers[idx]
            ok == Failover(resp).ok
            removed == IF ok THEN Append(removedSchedulers, name) ELSE removedSchedulers
            next == afterFirstPause(ok, idx = Len(schedulers), schedulerCfg)
        IN  /\ h' = [h EXCEPT !.allOk = @ /\ resp[1],
                              !.paused = IF ok THEN @ \cup {name} ELSE @,
                              !.pauseTried = @ \cup {name},
                              !.pauseReturned = IF next = "doPauseSchedulers" THEN @
                                                ELSE removed,
                              !.passFailed = @ \/ ~ok]
            /\ cpPaused' = IF ok THEN PostScheduler(cpPaused, name, pauseTimeout) ELSE cpPaused
            /\ IF next = "held"
               THEN Return(makeUndoFunctionByConfig(removedOnError(removed), scheduleCfg),
                           "doPauseSchedulers")
               ELSE /\ pc' = next
                    /\ removedSchedulers' = removed
                    /\ idx' = IF next = "doPauseSchedulers" THEN idx + 1 ELSE idx
                    /\ UNCHANGED <<undo, err, stores, scheduleCfg, schedulers, schedulerCfg>>
    /\ UNCHANGED <<timers, ret, bo, ctlVars, cpSchedulers, cpPerm, cpTmp, sid, ctxDone, undoErr, task>>

\* doPauseConfigs, lines 490-494, called from line 344: the first ttl override.
Pause_doPauseConfigs ==
    /\ pc = "doPauseConfigs"
    /\ \E resp \in CtxResponses :
        LET ok == Failover(resp).ok
            next == afterFirstPauseConfigs(ok)
            after == PostConfig(cpPerm, cpTmp, schedulerCfg.m, pausePrefix)
        IN  /\ h' = [h EXCEPT !.allOk = @ /\ resp[1],
                              !.overridden = IF ok THEN @ \cup DOMAIN schedulerCfg.m ELSE @,
                              !.overridePosts = Append(@, pausePrefix),
                              !.passFailed = @ \/ ~ok]
            /\ cpTmp' = IF ok THEN after.tmp ELSE cpTmp
            /\ cpPerm' = IF ok THEN after.perm ELSE cpPerm
            /\ IF next = "held"
               THEN Return(makeUndoFunctionByConfig(removedOnError(removedSchedulers),
                                                    scheduleCfg),
                           "doPauseConfigs")
               ELSE /\ pc' = next
                    /\ UNCHANGED <<undo, err, rsVars>>
    /\ UNCHANGED <<timers, ret, bo, ctlVars, cpSchedulers, cpPaused, sid, ctxDone, undoErr, task>>

\* pauseSchedulersAndConfigWith, lines 353-380, and RemoveSchedulers, lines
\* 588-589: start the renewal goroutine and return the handle.
Pause_go ==
    /\ pc = "go"
    /\ task' = [task EXCEPT ![sid] = [pc |-> "select", idx |-> 0, stopSent |-> FALSE,
                                      lateTick |-> FALSE, schedulers |-> schedulers,
                                      schedulerCfg |-> schedulerCfg]]
    /\ Return(makeUndoFunctionByConfig(removedSchedulers, scheduleCfg), "nil")
    /\ UNCHANGED <<timers, ret, bo, ctlVars, cpVars, sid, ctxDone, undoErr, h>>

\* ------------------------------------------------------------------- undo

\* A resume loop that stops at the first failed request, as doPauseSchedulers does.
afterResume_stoppingAtFailure(ok, atEnd) ==
    IF atEnd \/ ~ok THEN "return" ELSE "resumeSchedulers"

\* resumeSchedulerWith, lines 397-411: where the loop goes after the request
\* for one scheduler, whatever its outcome.
afterResume(ok, atEnd) == IF atEnd THEN "return" ELSE "resumeSchedulers"

\* resumeSchedulerWith, line 413: the error resume returns, given the
\* schedulers whose request failed on every address.
resumeResult(failed) == "nil"

\* restoreSchedulers, lines 497-500: an error of resume ends undo, otherwise
\* the config restore follows.
afterResumeSchedulers(e) == IF e # "nil" THEN "undone" ELSE "restoreConfig"

\* A restore that logs the failure and reports success, as resume does.
restoreResult_swallowed(ok) == "nil"

\* doUpdatePDScheduleConfig, lines 482-487, and restoreSchedulers, lines
\* 517-520: the error undo returns after the config-restore request.
restoreResult(ok) == IF ok THEN "nil" ELSE "fail to update PD merge config"

\* A restore that posts to config/schedule whatever the version.
restorePrefix_noTtl(v) == <<>>

\* restoreSchedulers, lines 511-515: the prefix of the config-restore request.
restorePrefix(v) == IF isPauseConfigEnabled(v) THEN <<0>> ELSE <<>>

\* The caller invokes the handle: Nop returns at once, any other handle
\* enters restoreSchedulers and ResumeSchedulers.
Undo_call ==
    /\ pc = "held"
    /\ IF undo.nop
       THEN pc' = "undone" /\ undoErr' = "nil"
       ELSE pc' = "resumeSend" /\ UNCHANGED undoErr
    /\ UNCHANGED <<timers, ret, bo, ctlVars, cpVars, sid, ctxDone, rsVars, undo, err, task, h>>

\* resumeSchedulerWith, line 390: p.schedulerPauseCh <- struct{}{}.  The send
\* faults on a closed channel and waits while the buffer is full.
Resume_send ==
    /\ pc = "resumeSend"
    /\ \/ /\ chClosed
          /\ pc' = "panic"
          /\ UNCHANGED <<chLen, idx, task>>
       \/ /\ ~chClosed
          /\ chLen < schedulerPauseChCap
          /\ chLen' = chLen + 1
          /\ task' = [task EXCEPT ![sid].stopSent = TRUE]
          /\ idx' = 1
          /\ pc' = IF Len(undo.scheduler) > 0
                   THEN "resumeSchedulers"
                   ELSE afterResumeSchedulers(resumeResult({}))
    /\ undoErr' = IF pc' = "undone" THEN resumeResult({}) ELSE undoErr
    /\ UNCHANGED <<timers, ret, bo, version, chClosed, cpVars, sid, ctxDone, stores, scheduleCfg,
                   schedulers, schedulerCfg, removedSchedulers, undo, err, h>>

\* resumeSchedulerWith, lines 397-411: the resume request for scheduler idx.
Resume_post ==
    /\ pc = "resumeSchedulers"
    /\ \E resp \in Responses :
        LET name == undo.scheduler[idx]
            ok == Failover(resp).ok
            next == afterResume(ok, idx = Len(undo.scheduler))
        IN  /\ h' = [h EXCEPT !.allOk = @ /\ resp[1],
                              !.resumeTried = Append(@, name),
                              !.resumeFailed = IF ok THEN @ ELSE @ \cup {name}]
            /\ cpPaused' = IF ok THEN PostScheduler(cpPaused, name, 0) ELSE cpPaused
            /\ pc' = IF next = "resumeSchedulers"
                     THEN next
                     ELSE afterResumeSchedulers(resumeResult(h'.resumeFailed))
            /\ undoErr' = IF pc' = "undone" THEN resumeResult(h'.resumeFailed) ELSE undoErr
            /\ idx' = IF next = "resumeSchedulers" THEN idx + 1 ELSE idx
    /\ UNCHANGED <<timers, ret, bo, ctlVars, cpSchedulers, cpPerm, cpTmp, sid, ctxDone, stores,
                   scheduleCfg, schedulers, schedulerCfg, removedSchedulers,
                   undo, err, task>>

\* restoreSchedulers, lines 500-521: the config-restore request; undo returns.
Restore_post ==
    /\ pc = "restoreConfig"
    /\ \E resp \in Responses :
        LET body == mergeCfg(undo.scheduleCfg)
            prefixs == restorePrefix(version)
            ok == Failover(resp).ok
            after == PostConfig(cpPerm, cpTmp, body, prefixs)
        IN  /\ h' = [h EXCEPT !.allOk = @ /\ resp[1],
                              !.restorePosts = Append(@, [body |-> body, prefixs |-> prefixs]),
                              !.restoreFailed = ~ok]
            /\ cpPerm' = IF ok THEN after.perm ELSE cpPerm
            /\ cpTmp' = IF ok THEN after.tmp ELSE cpTmp
            /\ undoErr' = restoreResult(ok)
    /\ pc' = "undone"
    /\ idx' = 0
    /\ UNCHANGED <<timers, ret, bo, ctlVars, cpSchedulers, cpPaused, sid, ctxDone, stores, scheduleCfg,
                   schedulers, schedulerCfg, removedSchedulers, undo, err, task>>

\* ------------------------------------------------------- Close and cancel

\* Close, lines 593-596: close(p.schedulerPauseCh); closing it twice faults.
Close ==
    /\ pc \in {"idle", "held", "undone"}
    /\ IF chClosed
       THEN pc' = "panic" /\ UNCHANGED chClosed
       ELSE chClosed' = TRUE /\ UNCHANGED pc
    /\ UNCHANGED <<timers, ret, bo, version, chLen, cpVars, sid, ctxDone, rsVars, undo, err, undoErr, task, h>>

\* The context the caller runs RemoveSchedulers under is cancelled.
CancelCtx ==
    /\ ~ctxDone
    /\ sid > 0
    /\ pc # "panic"
    /\ ctxDone' = TRUE
    /\ UNCHANGED <<timers, ret, bo, ctlVars, cpVars, pc, sid, rsVars, undo, err, undoErr, task, h>>

\* ------------------------------------------------- the renewal goroutine

\* A tick that posts the config override whether or not it was given one.
tickEnter_alwaysConfigs(scheds, cfg) ==
    IF Len(scheds) > 0 THEN "doPauseSchedulers" ELSE "doPauseConfigs"

\* Lines 361-371: where the goroutine goes when the ticker fires.
tickEnter(scheds, cfg) ==
    IF Len(scheds) > 0 THEN "doPauseSchedulers"
    ELSE IF ~cfg.isNil THEN "doPauseConfigs"
    ELSE "select"

\* A tick that a failed pause request ends, as it ends the first pass.
afterTickPause_abortingTick(ok, atEnd, cfg) ==
    IF ~ok THEN "select"
    ELSE IF ~atEnd THEN "doPauseSchedulers"
    ELSE IF ~cfg.isNil THEN "doPauseConfigs"
    ELSE "select"

\* Lines 362-371: where a tick goes after the request for one scheduler; a
\* failed request ends doPauseSchedulers, and the tick goes on.
afterTickPause(ok, atEnd, cfg) ==
    IF ok /\ ~atEnd THEN "doPauseSchedulers"
    ELSE IF ~cfg.isNil THEN "doPauseConfigs"
    ELSE "select"

\* The goroutine has returned: its closure is gone.
Exited(t) == [NoTask EXCEPT !.pc = "exited", !.stopSent = t.stopSent]

\* Lines 359-360: case <-ctx.Done().
Task_ctxDone(s) ==
    /\ task[s].pc = "select"
    /\ ctxDone
    /\ task' = [task EXCEPT ![s] = Exited(task[s])]
    /\ UNCHANGED <<timers, ret, bo, ctlVars, cpVars, pc, sid, ctxDone, rsVars, undo, err, undoErr, h>>

\* Lines 374-376: case <-p.schedulerPauseCh, a buffered value or the close.
Task_stop(s) ==
    /\ task[s].pc = "select"
    /\ chLen > 0 \/ chClosed
    /\ chLen' = IF chLen > 0 THEN chLen - 1 ELSE chLen
    /\ task' = [task EXCEPT ![s] = Exited(task[s])]
    /\ UNCHANGED <<timers, ret, bo, version, chClosed, cpVars, pc, sid, ctxDone, rsVars, undo, err, undoErr, h>>

\* Line 361: case <-tick.C.
Task_tick(s) ==
    /\ task[s].pc = "select"
    /\ task' = [task EXCEPT ![s].pc = tickEnter(task[s].schedulers, task[s].schedulerCfg),
                            ![s].idx = 1,
                            ![s].lateTick = task[s].stopSent]
    /\ UNCHANGED <<timers, ret, bo, ctlVars, cpVars, pc, sid, ctxDone, rsVars, undo, err, undoErr, h>>

\* Line 362: the pause request of a tick for schedulers[idx].
Task_doPauseSchedulers(s) ==
    /\ task[s].pc = "doPauseSchedulers"
    /\ \E resp \in CtxResponses :
        LET t == task[s]
            name == t.schedulers[t.idx]
            ok == Failover(resp).ok
            next == afterTickPause(ok, t.idx = Len(t.schedulers), t.schedulerCfg)
        IN  /\ h' = [h EXCEPT !.allOk = @ /\ resp[1]]
            /\ cpPaused' = IF ok THEN PostScheduler(cpPaused, name, pauseTimeout) ELSE cpPaused
            /\ task' = [task EXCEPT ![s].pc = next,
                                    ![s].idx = IF next = "doPauseSchedulers" THEN @ + 1 ELSE @]
    /\ UNCHANGED <<timers, ret, bo, ctlVars, cpSchedulers, cpPerm, cpTmp, pc, sid, ctxDone, rsVars,
                   undo, err, undoErr>>

\* Lines 366-371: the ttl override of a tick.
Task_doPauseConfigs(s) ==
    /\ task[s].pc = "doPauseConfigs"
    /\ \E resp \in CtxResponses :
        LET ok == Failover(resp).ok
            after == PostConfig(cpPerm, cpTmp, task[s].schedulerCfg.m, pausePrefix)
        IN  /\ h' = [h EXCEPT !.allOk = @ /\ resp[1]]
            /\ cpTmp' = IF ok THEN after.tmp ELSE cpTmp
            /\ cpPerm' = IF ok THEN after.perm ELSE cpPerm
            /\ task' = [task EXCEPT ![s].pc = "select"]
    /\ UNCHANGED <<timers, ret, bo, ctlVars, cpSchedulers, cpPaused, pc, sid, ctxDone, rsVars,
                   undo, err, undoErr>>

\* ---------------------------------------------------------- specification

Next ==
    \/ RemoveSchedulers_GetAllStores
    \/ RemoveSchedulers_GetPDScheduleConfig
    \/ RemoveSchedulers_ListSchedulers
    \/ RemoveSchedulers_doUpdatePDScheduleConfig
    \/ Pause_doPauseSchedulers
    \/ Pause_doPauseConfigs
    \/ Pause_go
    \/ Undo_call
    \/ Resume_send
    \/ Resume_post
    \/ Restore_post
    \/ Close
    \/ CancelCtx
    \/ \E s \in Sessions : Task_ctxDone(s)
    \/ \E s \in Sessions : Task_stop(s)
    \/ \E s \in Sessions : Task_tick(s)
    \/ \E s \in Sessions : Task_doPauseSchedulers(s)
    \/ \E s \in Sessions : Task_doPauseConfigs(s)

Spec == Init /\ [][Next]_vars


\* The scheduling the runtime guarantees: a goroutine inside a tick goes on,
\* a select with a ready exit case is not passed over forever, and a call of
\* the caller that is under way goes on (every request returns or times
\* out).  Nothing makes the caller start a call, close or cancel.
Fairness ==
    /\ \A s \in Sessions :
        /\ SF_vars(Task_ctxDone(s))
        /\ SF_vars(Task_stop(s))
        /\ WF_vars(Task_doPauseSchedulers(s))
        /\ WF_vars(Task_doPauseConfigs(s))
    /\ WF_vars(RemoveSchedulers_GetPDScheduleConfig)
    /\ WF_vars(RemoveSchedulers_ListSchedulers)
    /\ WF_vars(RemoveSchedulers_doUpdatePDScheduleConfig)
    /\ WF_vars(Pause_doPauseSchedulers)
    /\ WF_vars(Pause_doPauseConfigs)
    /\ WF_vars(Pause_go)
    /\ WF_vars(Resume_send)
    /\ WF_vars(Resume_post)
    /\ WF_vars(Restore_post)

FairSpec == Init /\ [][Next]_vars /\ Fairness

\* ------------------------------------------------ the renewal against time

\* http.Client{Timeout: 30 * time.Second}, line 158: the longest a request to
\* one address takes, in seconds.
requestTimeout == 30

\* A ticker that fires when the pause runs out.
tickPeriod_pauseTimeout == pauseTimeout

\* Line 354: time.NewTicker(pauseTimeout / 3), in seconds.
tickPeriod == pauseTimeout \div 3

\* How long a request to one address takes: no time, or as long as the
\* client lets it.
Latencies == {0, requestTimeout}

\* The answers of a control plane whose first address answers every request.
Answered == {resp \in Responses : resp[1]}

\* The clusters the renewal is timed against: one of them runs all six
\* allow-listed schedulers.
TimedClusters ==
    [ version : {<<4, 0, 7>>, <<4, 0, 8>>},
      cfg : {defaultCfg},
      schedulers : { threeSchedulers,
                     << "balance-leader-scheduler", "balance-hot-region-scheduler",
                        "balance-region-scheduler", "shuffle-leader-scheduler",
                        "shuffle-region-scheduler", "shuffle-hot-region-scheduler" >> } ]

\* d seconds pass: the ticker fires when its time comes and keeps at most
\* one tick in tick.C; a pause or an override whose time runs out lapses.
Elapse(t, d) ==
    [ tick |-> IF t.tick = 0 THEN 0
               ELSE IF d < t.tick THEN t.tick - d
               ELSE tickPeriod - ((d - t.tick) % tickPeriod),
      tickC |-> t.tickC \/ (t.tick > 0 /\ d >= t.tick),
      lease |-> [n \in Schedulers |-> IF t.lease[n] > d THEN t.lease[n] - d ELSE 0],
      ttl |-> IF t.ttl > d THEN t.ttl - d ELSE 0,
      lapsed |-> \/ t.lapsed
                 \/ \E n \in Schedulers : t.lease[n] > 0 /\ t.lease[n] <= d
                 \/ t.ttl > 0 /\ t.ttl <= d,
      pass |-> t.pass,
      slowPass |-> t.slowPass,
      ticks |-> t.ticks ]

\* A request of a pass takes d seconds.
Spend(t, d) ==
    LET spent == IF t.pass + d < tickPeriod THEN t.pass + d ELSE tickPeriod
    IN  [Elapse(t, d) EXCEPT !.pass = spent, !.slowPass = @ \/ spent = tickPeriod]

\* The control plane drops a pause, and the temporary overrides, when their
\* time has run out.
Pausing(paused, t) == {n \in paused : t.lease[n] > 0}
Temporary(tmp, t) == IF t.ttl > 0 THEN tmp ELSE EmptyMap

\* doPauseSchedulers, lines 307-308 and 315-318: the timers after a pause
\* request for scheduler name, every address tried taking d seconds to
\* answer or to fail; the control plane, if it answers, pauses the scheduler
\* for pauseTimeout seconds.
PauseServed(t, resp, d, name) ==
    LET t1 == Spend(t, Failover(resp).tried * d)
    IN  IF Failover(resp).ok THEN [t1 EXCEPT !.lease[name] = pauseTimeout] ELSE t1

\* doPauseConfigs, lines 491-493: the timers after a ttl override, which the
\* control plane, if it answers, keeps for ttlSecond seconds.
ConfigServed(t, resp, d) ==
    LET t1 == Spend(t, Failover(resp).tried * d)
    IN  IF Failover(resp).ok THEN [t1 EXCEPT !.ttl = pausePrefix[1]] ELSE t1

\* A controller against one of the clusters, no session begun, time not
\* yet counted.
TimedInit ==
    /\ \E c \in TimedClusters :
        /\ version = c.version
        /\ cpSchedulers = c.schedulers
        /\ cpPerm = c.cfg
    /\ chLen = 0
    /\ chClosed = FALSE
    /\ cpPaused = {}
    /\ cpTmp = EmptyMap
    /\ pc = "idle"
    /\ sid = 0
    /\ ctxDone = FALSE
    /\ stores = 0
    /\ scheduleCfg = EmptyMap
    /\ schedulers = <<>>
    /\ schedulerCfg = NilCfg
    /\ removedSchedulers = <<>>
    /\ idx = 0
    /\ undo = Nop
    /\ err = "nil"
    /\ undoErr = "nil"
    /\ task = [s \in Sessions |-> NoTask]
    /\ ret = NoRet
    /\ bo = NoBackoffer
    /\ timers = NoTimers
    /\ h = NewHistory(cpPerm)

\* doPauseSchedulers, lines 314-326, called from line 336: the pause request
\* of the first pass for schedulers[idx], and the time it takes.
Timed_Pause_doPauseSchedulers ==
    /\ pc = "doPauseSchedulers"
    /\ \E resp \in Answered \cup {AllFail}, d \in Latencies :
        LET name == schedulers[idx]
            ok == Failover(resp).ok
            removed == IF ok THEN Append(removedSchedulers, name) ELSE removedSchedulers
            next == afterFirstPause(ok, idx = Len(schedulers), schedulerCfg)
        IN  /\ h' = [h EXCEPT !.allOk = @ /\ resp[1],
                              !.paused = IF ok THEN @ \cup {name} ELSE @,
                              !.pauseTried = @ \cup {name},
                              !.pauseReturned = IF next = "doPauseSchedulers" THEN @
                                                ELSE removed,
                              !.passFailed = @ \/ ~ok]
            /\ timers' = PauseServed(timers, resp, d, name)
            /\ cpPaused' = IF ok THEN PostScheduler(Pausing(cpPaused, timers'), name, pauseTimeout)
                         ELSE Pausing(cpPaused, timers')
            /\ cpTmp' = Temporary(cpTmp, timers')
            /\ IF next = "held"
               THEN Return(makeUndoFunctionByConfig(removedOnError(removed), scheduleCfg),
                           "doPauseSchedulers")
               ELSE /\ pc' = next
                    /\ removedSchedulers' = removed
                    /\ idx' = IF next = "doPauseSchedulers" THEN idx + 1 ELSE idx
                    /\ UNCHANGED <<undo, err, stores, scheduleCfg, schedulers, schedulerCfg>>
    /\ UNCHANGED <<ret, bo, ctlVars, cpSchedulers, cpPerm, sid, ctxDone, undoErr, task>>

\* doPauseConfigs, lines 490-494, called from line 344: the first ttl
\* override, and the time it takes.
Timed_Pause_doPauseConfigs ==
    /\ pc = "doPauseConfigs"
    /\ \E resp \in Answered \cup {AllFail}, d \in Latencies :
        LET ok == Failover(resp).ok
            next == afterFirstPauseConfigs(ok)
        IN  /\ h' = [h EXCEPT !.allOk = @ /\ resp[1],
                              !.overridden = IF ok THEN @ \cup DOMAIN schedulerCfg.m ELSE @,
                              !.overridePosts = Append(@, pausePrefix),
                              !.passFailed = @ \/ ~ok]
            /\ timers' = ConfigServed(timers, resp, d)
            /\ cpTmp' = IF ok
                        THEN PostConfig(cpPerm,
                                        Temporary(cpTmp, Spend(timers, Failover(resp).tried * d)),
                                        schedulerCfg.m, pausePrefix).tmp
                        ELSE Temporary(cpTmp, timers')
            /\ cpPaused' = Pausing(cpPaused, timers')
            /\ IF next = "held"
               THEN Return(makeUndoFunctionByConfig(removedOnError(removedSchedulers),
                                                    scheduleCfg),
                           "doPauseConfigs")
               ELSE /\ pc' = next
                    /\ UNCHANGED <<undo, err, rsVars>>
    /\ UNCHANGED <<ret, bo, ctlVars, cpSchedulers, cpPerm, sid, ctxDone, undoErr, task>>

\* pauseSchedulersAndConfigWith, lines 353-380, and RemoveSchedulers, lines
\* 588-589: start the goroutine, whose ticker fires first after tickPeriod.
Timed_Pause_go ==
    /\ pc = "go"
    /\ task' = [task EXCEPT ![sid] = [pc |-> "select", idx |-> 0, stopSent |-> FALSE,
                                      lateTick |-> FALSE, schedulers |-> schedulers,
                                      schedulerCfg |-> schedulerCfg]]
    /\ timers' = [timers EXCEPT !.tick = tickPeriod, !.tickC = FALSE]
    /\ Return(makeUndoFunctionByConfig(removedSchedulers, scheduleCfg), "nil")
    /\ UNCHANGED <<ret, bo, ctlVars, cpVars, sid, ctxDone, undoErr, h>>

\* Lines 357-358: the goroutine waits in its select, and the caller goes on
\* with its operation, until the ticker fires.
Timed_Task_select ==
    /\ pc = "held"
    /\ sid > 0
    /\ task[sid].pc = "select"
    /\ ~timers.tickC
    /\ timers' = Elapse(timers, timers.tick)
    /\ cpPaused' = Pausing(cpPaused, timers')
    /\ cpTmp' = Temporary(cpTmp, timers')
    /\ UNCHANGED <<ret, bo, ctlVars, cpSchedulers, cpPerm, pc, sid, ctxDone, rsVars, undo, err,
                   undoErr, task, h>>

\* Line 361: case <-tick.C, taken when a tick is waiting.
Timed_Task_tick ==
    /\ sid > 0
    /\ task[sid].pc = "select"
    /\ timers.tickC
    /\ timers' = [timers EXCEPT !.tickC = FALSE,
                                !.pass = 0,
                                !.ticks = IF @ < MaxTicks THEN @ + 1 ELSE @]
    /\ task' = [task EXCEPT ![sid].pc = tickEnter(task[sid].schedulers,
                                                  task[sid].schedulerCfg),
                            ![sid].idx = 1,
                            ![sid].lateTick = task[sid].stopSent]
    /\ UNCHANGED <<ret, bo, ctlVars, cpVars, pc, sid, ctxDone, rsVars, undo, err, undoErr, h>>

\* Line 362: the pause request of a tick for schedulers[idx], which the
\* control plane answers, and the time it takes.
Timed_Task_doPauseSchedulers ==
    /\ sid > 0
    /\ task[sid].pc = "doPauseSchedulers"
    /\ \E resp \in Answered, d \in Latencies :
        LET t == task[sid]
            name == t.schedulers[t.idx]
            ok == Failover(resp).ok
            next == afterTickPause(ok, t.idx = Len(t.schedulers), t.schedulerCfg)
        IN  /\ h' = [h EXCEPT !.allOk = @ /\ resp[1]]
            /\ timers' = PauseServed(timers, resp, d, name)
            /\ cpPaused' = IF ok THEN PostScheduler(Pausing(cpPaused, timers'), name, pauseTimeout)
                         ELSE Pausing(cpPaused, timers')
            /\ cpTmp' = Temporary(cpTmp, timers')
            /\ task' = [task EXCEPT ![sid].pc = next,
                                    ![sid].idx = IF next = "doPauseSchedulers" THEN @ + 1
                                                 ELSE @]
    /\ UNCHANGED <<ret, bo, ctlVars, cpSchedulers, cpPerm, pc, sid, ctxDone, rsVars,
                   undo, err, undoErr>>

\* Lines 366-371: the ttl override of a tick, which the control plane
\* answers, and the time it takes.
Timed_Task_doPauseConfigs ==
    /\ sid > 0
    /\ task[sid].pc = "doPauseConfigs"
    /\ \E resp \in Answered, d \in Latencies :
        /\ h' = [h EXCEPT !.allOk = @ /\ resp[1]]
        /\ timers' = ConfigServed(timers, resp, d)
        /\ cpTmp' = IF Failover(resp).ok
                    THEN PostConfig(cpPerm,
                                    Temporary(cpTmp, Spend(timers, Failover(resp).tried * d)),
                                    task[sid].schedulerCfg.m, pausePrefix).tmp
                    ELSE Temporary(cpTmp, timers')
        /\ cpPaused' = Pausing(cpPaused, timers')
        /\ task' = [task EXCEPT ![sid].pc = "select"]
    /\ UNCHANGED <<ret, bo, ctlVars, cpSchedulers, cpPerm, pc, sid, ctxDone, rsVars,
                   undo, err, undoErr>>

\* One session from RemoveSchedulers to the moment its undo is invoked, the
\* requests of the pause and of its renewal taking time.
TimedNext ==
    \/ RemoveSchedulers_GetAllStores
    \/ RemoveSchedulers_GetPDScheduleConfig
    \/ RemoveSchedulers_ListSchedulers
    \/ RemoveSchedulers_doUpdatePDScheduleConfig
    \/ Timed_Pause_doPauseSchedulers
    \/ Timed_Pause_doPauseConfigs
    \/ Timed_Pause_go
    \/ Timed_Task_select
    \/ Timed_Task_tick
    \/ Timed_Task_doPauseSchedulers
    \/ Timed_Task_doPauseConfigs
    \/ Undo_call

TimedSpec == TimedInit /\ [][TimedNext]_vars

\* ------------------------------------------------------- pure functions

\* A controller of any version, or a fetched config and a number of stores,
\* before a call of isPauseConfigEnabled or of the computation of the
\* override map.
PureInit ==
    /\ \/ /\ version \in Versions
          /\ stores = 0
          /\ scheduleCfg = EmptyMap
       \/ /\ version = pauseConfigVersion
          /\ stores \in 0..MaxLiveStores
          /\ scheduleCfg \in FetchedCfgs
    /\ cpSchedulers = <<>>
    /\ cpPerm = scheduleCfg
    /\ chLen = 0
    /\ chClosed = FALSE
    /\ cpPaused = {}
    /\ cpTmp = EmptyMap
    /\ pc = "pure"
    /\ sid = 0
    /\ ctxDone = FALSE
    /\ schedulers = <<>>
    /\ schedulerCfg = NilCfg
    /\ removedSchedulers = <<>>
    /\ idx = 0
    /\ undo = Nop
    /\ err = "nil"
    /\ undoErr = "nil"
    /\ task = [s \in Sessions |-> NoTask]
    /\ ret = NoRet
    /\ bo = NoBackoffer
    /\ timers = NoTimers
    /\ h = NewHistory(cpPerm)

\* Everything but ret.
callVars == <<timers, version, chLen, chClosed, cpSchedulers, cpPaused, cpPerm, cpTmp, pc, sid,
              ctxDone, stores, scheduleCfg, schedulers, schedulerCfg, removedSchedulers,
              idx, undo, err, undoErr, task, bo, h>>

\* Lines 233-235: p.isPauseConfigEnabled().
Call_isPauseConfigEnabled ==
    /\ pc = "pure"
    /\ ret' = [f |-> "isPauseConfigEnabled", b |-> isPauseConfigEnabled(version),
               m |-> EmptyMap]
    /\ UNCHANGED callVars

\* Lines 541-559: the loop of RemoveSchedulers that fills disablePDCfg from
\* the fetched config and len(stores); the type assertion of line 556 faults
\* on a value that is not a number.
Call_disablePDCfg ==
    /\ pc = "pure"
    /\ ret' = IF assertionPanics(scheduleCfg)
              THEN [f |-> "panic", b |-> FALSE, m |-> EmptyMap]
              ELSE [f |-> "disablePDCfg", b |-> FALSE,
                    m |-> disablePDCfg(scheduleCfg, stores)]
    /\ UNCHANGED callVars

PureNext == Call_isPauseConfigEnabled \/ Call_disablePDCfg

PureSpec == PureInit /\ [][PureNext]_vars

\* ------------------------------------------------- backoff: time.Duration

\* time.Duration is an int64 count of nanoseconds.  It is held here as four
\* 16-bit limbs in two's complement, least significant first, so that
\* doubling wraps as it does in the code.
Limb == 65536

\* The Duration of n nanoseconds, for 0 <= n < 2^31.
Duration(n) == <<n % Limb, (n \div Limb) % Limb, 0, 0>>

\* 2 * d in int64.
Double(d) ==
    LET c1 == 2 * d[1]
        c2 == 2 * d[2] + c1 \div Limb
        c3 == 2 * d[3] + c2 \div Limb
        c4 == 2 * d[4] + c3 \div Limb
    IN  <<c1 % Limb, c2 % Limb, c3 % Limb, c4 % Limb>>

\* d < 0 in int64: the sign bit is set.
Negative(d) == d[4] >= Limb \div 2

\* a > b in int64.
Greater(a, b) ==
    IF Negative(a) # Negative(b) THEN Negative(b)
    ELSE \E i \in 1..4 : a[i] > b[i] /\ \A j \in (i + 1)..4 : a[j] = b[j]

\* time.Millisecond and time.Second, in nanoseconds.
Millisecond == 1000000
Second == 1000000000

\* ------------------------------------------------------ backoff: policies

importSSTRetryTimes == 16
importSSTWaitInterval == 10 * Millisecond
importSSTMaxWaitInterval == 1 * Second

downloadSSTRetryTimes == 8
downloadSSTWaitInterval == 10 * Millisecond
downloadSSTMaxWaitInterval == 1 * Second

resetTSRetryTime == 16
resetTSWaitInterval == 50 * Millisecond
resetTSMaxWaitInterval == 500 * Millisecond

\* NewBackoffer, lines 39-45.
NewBackoffer(attempt, delayTime, maxDelayTime) ==
    [kind |-> "importerBackoffer", attempt |-> attempt,
     delayTime |-> Duration(delayTime), maxDelayTime |-> Duration(maxDelayTime)]

\* newImportSSTBackoffer, lines 47-49.
newImportSSTBackoffer ==
    NewBackoffer(importSSTRetryTimes, importSSTWaitInterval, importSSTMaxWaitInterval)

\* A download policy made with the import policy's retry times.
newDownloadSSTBackoffer_importTimes ==
    NewBackoffer(importSSTRetryTimes, downloadSSTWaitInterval, downloadSSTMaxWaitInterval)

\* newDownloadSSTBackoffer, lines 51-53.
newDownloadSSTBackoffer ==
    NewBackoffer(downloadSSTRetryTimes, downloadSSTWaitInterval, downloadSSTMaxWaitInterval)

\* newPDReqBackoffer, lines 92-98.
newPDReqBackoffer ==
    [kind |-> "pdReqBackoffer", attempt |-> resetTSRetryTime,
     delayTime |-> Duration(resetTSWaitInterval),
     maxDelayTime |-> Duration(resetTSMaxWaitInterval)]

\* The errors NextBackoff is given: cause = errors.Cause(err) where it is one
\* of the berrors kinds, code = status.Code(err), which is OK for nil and
\* Unknown for an error that carries no grpc status.
Errors ==
    {[cause |-> "nil", code |-> "OK"]}
    \cup {[cause |-> c, code |-> "Unknown"] :
            c \in {"ErrKVEpochNotMatch", "ErrKVDownloadFailed", "ErrKVIngestFailed",
                   "ErrKVRangeIsEmpty", "ErrKVRewriteRuleNotFound"}}
    \cup {[cause |-> "other", code |-> c] :
            c \in {"Unavailable", "Aborted", "Unknown", "Canceled"}}

\* A return that does not compare with maxDelayTime.
capped_never(b) == b.delayTime

\* NextBackoff, lines 76-79 and 103-106: the delay returned.
capped(b) ==
    IF Greater(b.delayTime, b.maxDelayTime) THEN b.maxDelayTime ELSE b.delayTime

\* A transient branch that starts again from a millisecond when the delay is 0.
retry_restarting(b) ==
    [b EXCEPT !.delayTime = IF b.delayTime = Duration(0) THEN Duration(Millisecond)
                            ELSE Double(b.delayTime),
              !.attempt = b.attempt - 1]

\* The transient branch without the decrement.
retry_sameAttempt(b) == [b EXCEPT !.delayTime = Double(b.delayTime)]

\* NextBackoff, lines 58-59, 67-68 and 101-102.
retry(b) == [b EXCEPT !.delayTime = Double(b.delayTime), !.attempt = b.attempt - 1]

\* A terminal branch that keeps the attempts.
finish_delayOnly(b) == [b EXCEPT !.delayTime = Duration(0)]

\* NextBackoff, lines 62-63 and 71-72.
finish(b) == [b EXCEPT !.delayTime = Duration(0), !.attempt = 0]

\* importerBackoffer.NextBackoff, lines 56-75: the branch taken for err.
branch(e) ==
    IF e.cause \in {"ErrKVEpochNotMatch", "ErrKVDownloadFailed", "ErrKVIngestFailed"}
    THEN "retry"
    ELSE IF e.cause \in {"ErrKVRangeIsEmpty", "ErrKVRewriteRuleNotFound"}
    THEN "finish"
    ELSE IF e.code \in {"Unavailable", "Aborted"}
    THEN "retry"
    ELSE "finish"

\* importerBackoffer.NextBackoff, lines 55-80: the backoffer after the call.
importerBackoffer_NextBackoff(b, e) ==
    IF branch(e) = "retry" THEN retry(b) ELSE finish(b)

\* A control-plane policy that classifies as the importer's does.
pdReqBackoffer_NextBackoff_classifying(b, e) == importerBackoffer_NextBackoff(b, e)

\* pdReqBackoffer.NextBackoff, lines 100-107: the backoffer after the call.
pdReqBackoffer_NextBackoff(b, e) == retry(b)

\* The arguments NewBackoffer is called with.
Attempts == {1, 3, 64}
DelayTimes == {0, 10 * Millisecond, 2 * Second}
MaxDelayTimes == {500 * Millisecond, 1 * Second}

\* No call made yet: the record kept of the last call.  k = the calls made
\* on the backoffer so far if each was retried, -1 once one was not;
\* delayTime, maxDelayTime = what the backoffer was made with.
NoCall == [f |-> "", err |-> [cause |-> "nil", code |-> "OK"], d |-> Duration(0),
           k |-> 0, calls |-> 0, delayTime |-> 0, maxDelayTime |-> 0]

made(f, delayTime, maxDelayTime) ==
    [NoCall EXCEPT !.f = f, !.delayTime = delayTime, !.maxDelayTime = maxDelayTime]

BackoffInit ==
    /\ version = <<0, 0, 0>>
    /\ stores = 0
    /\ scheduleCfg = EmptyMap
    /\ cpSchedulers = <<>>
    /\ cpPerm = EmptyMap
    /\ chLen = 0
    /\ chClosed = FALSE
    /\ cpPaused = {}
    /\ cpTmp = EmptyMap
    /\ pc = "backoff"
    /\ sid = 0
    /\ ctxDone = FALSE
    /\ schedulers = <<>>
    /\ schedulerCfg = NilCfg
    /\ removedSchedulers = <<>>
    /\ idx = 0
    /\ undo = Nop
    /\ err = "nil"
    /\ undoErr = "nil"
    /\ task = [s \in Sessions |-> NoTask]
    /\ ret = NoCall
    /\ bo = NoBackoffer
    /\ timers = NoTimers
    /\ h = NewHistory(EmptyMap)

\* What the backoff code leaves alone: everything but bo and ret.
backoffVars == <<timers, version, chLen, chClosed, cpSchedulers, cpPaused, cpPerm, cpTmp, pc,
                 sid, ctxDone, stores, scheduleCfg, schedulers, schedulerCfg,
                 removedSchedulers, idx, undo, err, undoErr, task, h>>

Call_NewBackoffer ==
    /\ pc = "backoff"
    /\ bo = NoBackoffer
    /\ \E attempt \in Attempts, delayTime \in DelayTimes, maxDelayTime \in MaxDelayTimes :
        /\ bo' = NewBackoffer(attempt, delayTime, maxDelayTime)
        /\ ret' = made("NewBackoffer", delayTime, maxDelayTime)
    /\ UNCHANGED backoffVars

Call_newImportSSTBackoffer ==
    /\ pc = "backoff"
    /\ bo = NoBackoffer
    /\ bo' = newImportSSTBackoffer
    /\ ret' = made("newImportSSTBackoffer", importSSTWaitInterval, importSSTMaxWaitInterval)
    /\ UNCHANGED backoffVars

Call_newDownloadSSTBackoffer ==
    /\ pc = "backoff"
    /\ bo = NoBackoffer
    /\ bo' = newDownloadSSTBackoffer
    /\ ret' = made("newDownloadSSTBackoffer", downloadSSTWaitInterval,
                   downloadSSTMaxWaitInterval)
    /\ UNCHANGED backoffVars

Call_newPDReqBackoffer ==
    /\ pc = "backoff"
    /\ bo = NoBackoffer
    /\ bo' = newPDReqBackoffer
    /\ ret' = made("newPDReqBackoffer", resetTSWaitInterval, resetTSMaxWaitInterval)
    /\ UNCHANGED backoffVars

\* The record of one NextBackoff call that left the backoffer as b.
called(b, e, retried) ==
    [ret EXCEPT !.f = "NextBackoff", !.err = e, !.d = capped(b),
                !.k = IF retried /\ ret.k >= 0 THEN ret.k + 1 ELSE -1,
                !.calls = ret.calls + 1]

Call_importerBackoffer_NextBackoff ==
    /\ pc = "backoff"
    /\ bo.kind = "importerBackoffer"
    /\ ret.calls < MaxCalls
    /\ \E e \in Errors :
        LET b == importerBackoffer_NextBackoff(bo, e)
        IN  /\ bo' = b
            /\ ret' = called(b, e, branch(e) = "retry")
    /\ UNCHANGED backoffVars

Call_pdReqBackoffer_NextBackoff ==
    /\ pc = "backoff"
    /\ bo.kind = "pdReqBackoffer"
    /\ ret.calls < MaxCalls
    /\ \E e \in Errors :
        LET b == pdReqBackoffer_NextBackoff(bo, e)
        IN  /\ bo' = b
            /\ ret' = called(b, e, TRUE)
    /\ UNCHANGED backoffVars

BackoffNext ==
    \/ Call_NewBackoffer
    \/ Call_newImportSSTBackoffer
    \/ Call_newDownloadSSTBackoffer
    \/ Call_newPDReqBackoffer
    \/ Call_importerBackoffer_NextBackoff
    \/ Call_pdReqBackoffer_NextBackoff

BackoffSpec == BackoffInit /\ [][BackoffNext]_vars

\* ------------------------------------------- construction and requests

\* NewPdController, lines 170-177: an address without scheme gets one.
processAddr(addr, tls) ==
    IF addr.scheme # "" THEN addr
    ELSE [scheme |-> IF tls THEN "https://" ELSE "http://", host |-> addr.host]

\* A probe loop without the break: every address is asked.
probeUntil_all(resp) == Len(resp)

\* NewPdController, lines 169-182: the number of addresses asked for the
\* version; the loop ends at the first that answers.
probeUntil(resp) ==
    IF \E i \in 1..Len(resp) : resp[i]
    THEN CHOOSE i \in 1..Len(resp) : resp[i] /\ \A j \in 1..(i - 1) : ~resp[j]
    ELSE Len(resp)

\* Before construction: no controller, no call made yet.
CallInit ==
    /\ version = <<0, 0, 0>>
    /\ stores = 0
    /\ scheduleCfg = EmptyMap
    /\ cpSchedulers = <<>>
    /\ cpPerm = EmptyMap
    /\ chLen = 0
    /\ chClosed = FALSE
    /\ cpPaused = {}
    /\ cpTmp = EmptyMap
    /\ pc = "call"
    /\ sid = 0
    /\ ctxDone = FALSE
    /\ schedulers = <<>>
    /\ schedulerCfg = NilCfg
    /\ removedSchedulers = <<>>
    /\ idx = 0
    /\ undo = Nop
    /\ err = "nil"
    /\ undoErr = "nil"
    /\ task = [s \in Sessions |-> NoTask]
    /\ ret = NoRet
    /\ bo = NoBackoffer
    /\ timers = NoTimers
    /\ h = NewHistory(EmptyMap)

\* What a call outside a session leaves alone: everything but pc, ret and
\* version.
newVars == <<timers, chLen, chClosed, cpSchedulers, cpPaused, cpPerm, cpTmp, sid,
             ctxDone, stores, scheduleCfg, schedulers, schedulerCfg, removedSchedulers,
             idx, undo, err, undoErr, task, bo, h>>

\* NewPdController, lines 152-211: probe the addresses for the version, parse
\* it, make the pd client and build the controller.  ret.addrs is
\* processedAddrs, the addresses that were asked.
NewPdController ==
    /\ pc = "call"
    /\ \E pdAddrs \in PdAddrs, tlsConf \in BOOLEAN, clientOk \in BOOLEAN :
        \E resp \in [1..Len(pdAddrs) -> BOOLEAN] :
        \E versionBytes \in (IF \E i \in 1..Len(resp) : resp[i]
                              THEN SomeVersionBytes ELSE {<<>>}) :
            LET n == probeUntil(resp)
                failure == ~resp[n]
                e == IF failure THEN "ErrPDUpdateFailed"
                     ELSE IF ~clientOk THEN "NewClientWithContext"
                     ELSE "nil"
            IN  /\ ret' = [f |-> "NewPdController", pdAddrs |-> pdAddrs, tlsConf |-> tlsConf,
                           resp |-> resp, versionBytes |-> versionBytes,
                           clientOk |-> clientOk,
                           addrs |-> [i \in 1..n |-> processAddr(pdAddrs[i], tlsConf)],
                           err |-> e]
                /\ version' = IF e = "nil" THEN parseVersion(versionBytes) ELSE version
    /\ pc' = "return"
    /\ UNCHANGED newVars

\* parseVersion, lines 213-231, of the bytes some address answered.
Call_parseVersion ==
    /\ pc = "call"
    /\ \E versionBytes \in VersionBytes :
        ret' = [f |-> "parseVersion", versionBytes |-> versionBytes,
                version |-> parseVersion(versionBytes)]
    /\ pc' = "return"
    /\ UNCHANGED <<version, newVars>>

\* Errors: none, the error the request to the addr-th address returned, a
\* body that does not decode, and berrors.ErrPDUpdateFailed.
NilErr == [kind |-> "nil", addr |-> 0]
requestErr(i) == [kind |-> "request", addr |-> i]
UnmarshalErr == [kind |-> "json.Unmarshal", addr |-> 0]
ErrPDUpdateFailed == [kind |-> "ErrPDUpdateFailed", addr |-> 0]

RECURSIVE tryFrom_firstErr(_, _, _, _)
\* A loop that keeps the first error instead of the last.
tryFrom_firstErr(resp, i, tried, e) ==
    IF i > Len(addrs) THEN [ok |-> FALSE, tried |-> tried, err |-> e]
    ELSE IF resp[i] THEN [ok |-> TRUE, tried |-> Append(tried, i), err |-> NilErr]
    ELSE tryFrom_firstErr(resp, i + 1, Append(tried, i),
                          IF e = NilErr THEN requestErr(i) ELSE e)

RECURSIVE tryFrom(_, _, _, _)
\* getClusterVersionWith, lines 260-269, from the i-th address on: a failed
\* request sets err and goes on, an answer ends the loop.  tried = the
\* addresses a request was sent to, in order.
tryFrom(resp, i, tried, e) ==
    IF i > Len(addrs) THEN [ok |-> FALSE, tried |-> tried, err |-> e]
    ELSE IF resp[i] THEN [ok |-> TRUE, tried |-> Append(tried, i), err |-> NilErr]
    ELSE tryFrom(resp, i + 1, Append(tried, i), requestErr(i))

\* getClusterVersionWith, lines 258-270.
getClusterVersionWith(resp) == tryFrom(resp, 1, <<>>, NilErr)

\* The body an answering address sent: one that decodes to what is asked
\* for, one that decodes without it, one that does not decode.
Bodies == {"ok", "empty", "undecodable"}

\* getRegionCountWith, lines 277-304: the same loop; the answer is decoded,
\* and a map without "count" fails the assertion to float64.
getRegionCountWith(resp, body) ==
    LET r == tryFrom(resp, 1, <<>>, NilErr)
    IN  IF r.ok /\ body = "undecodable" THEN [r EXCEPT !.ok = FALSE, !.err = UnmarshalErr]
        ELSE IF r.ok /\ body = "empty"
                THEN [r EXCEPT !.ok = FALSE, !.err = [kind |-> "panic", addr |-> 0]]
        ELSE r

\* listSchedulersWith, lines 421-437.
listSchedulersWith(resp, body) ==
    LET r == tryFrom(resp, 1, <<>>, NilErr)
    IN  IF r.ok /\ body = "undecodable" THEN [r EXCEPT !.ok = FALSE, !.err = UnmarshalErr]
        ELSE r

\* GetPDScheduleConfig, lines 441-460.
GetPDScheduleConfig(resp, body) ==
    LET r == tryFrom(resp, 1, <<>>, NilErr)
    IN  IF r.ok /\ body = "undecodable" THEN [r EXCEPT !.ok = FALSE, !.err = UnmarshalErr]
        ELSE r

\* doPauseSchedulers, lines 313-325, for one scheduler: err is assigned by
\* every request, so it ends as the result of the last one.
doPauseSchedulers(resp) == tryFrom(resp, 1, <<>>, NilErr)

\* doUpdatePDScheduleConfig, lines 475-487: the errors of the requests are
\* logged, and ErrPDUpdateFailed is returned when no address accepted.
doUpdatePDScheduleConfig(resp) ==
    LET r == tryFrom(resp, 1, <<>>, NilErr)
    IN  IF r.ok THEN r ELSE [r EXCEPT !.err = ErrPDUpdateFailed]

\* What one failover operation returned.
Returned(f, resp, r) ==
    [f |-> f, resp |-> resp, tried |-> r.tried, ok |-> r.ok, err |-> r.err]

Call_getClusterVersionWith ==
    /\ pc = "call"
    /\ \E resp \in Responses :
        ret' = Returned("getClusterVersionWith", resp, getClusterVersionWith(resp))
    /\ pc' = "return"
    /\ UNCHANGED <<version, newVars>>

Call_getRegionCountWith ==
    /\ pc = "call"
    /\ \E resp \in Responses, body \in Bodies :
        ret' = Returned("getRegionCountWith", resp, getRegionCountWith(resp, body))
    /\ pc' = "return"
    /\ UNCHANGED <<version, newVars>>

Call_listSchedulersWith ==
    /\ pc = "call"
    /\ \E resp \in Responses, body \in Bodies :
        ret' = Returned("listSchedulersWith", resp, listSchedulersWith(resp, body))
    /\ pc' = "return"
    /\ UNCHANGED <<version, newVars>>

Call_GetPDScheduleConfig ==
    /\ pc = "call"
    /\ \E resp \in Responses, body \in Bodies :
        ret' = Returned("GetPDScheduleConfig", resp, GetPDScheduleConfig(resp, body))
    /\ pc' = "return"
    /\ UNCHANGED <<version, newVars>>

Call_doPauseSchedulers ==
    /\ pc = "call"
    /\ \E resp \in Responses :
        ret' = Returned("doPauseSchedulers", resp, doPauseSchedulers(resp))
    /\ pc' = "return"
    /\ UNCHANGED <<version, newVars>>

Call_doUpdatePDScheduleConfig ==
    /\ pc = "call"
    /\ \E resp \in Responses :
        ret' = Returned("doUpdatePDScheduleConfig", resp, doUpdatePDScheduleConfig(resp))
    /\ pc' = "return"
    /\ UNCHANGED <<version, newVars>>

\* http.StatusOK.
StatusOK == 200

\* The status codes an address answers with.
StatusCodes == {200, 201, 202, 204, 206, 299, 300, 301, 304, 400, 404, 500, 503}

\* A test that accepts every 2xx status.
statusFails_outside2xx(StatusCode) == StatusCode < 200 \/ StatusCode > 299

\* pdRequest, line 128: the statuses answered with ErrPDInvalidResponse.
statusFails(StatusCode) == StatusCode # StatusOK

\* pdRequest, lines 109-138.  step = the first call that fails, if any: of
\* url.Parse, http.NewRequestWithContext or cli.Do; readOk = ioutil.ReadAll
\* reads the whole body.  The result is the bytes and the error, which for
\* ErrPDInvalidResponse carries the status and what was read of the body.
pdRequest(step, StatusCode, readOk) ==
    LET res == IF readOk THEN "body" ELSE "part of body"
    IN  IF step # "none"
        THEN [r |-> "", err |-> step, status |-> 0, res |-> ""]
        ELSE IF statusFails(StatusCode)
        THEN [r |-> "", err |-> "ErrPDInvalidResponse", status |-> StatusCode, res |-> res]
        ELSE IF ~readOk
        THEN [r |-> "", err |-> "ReadAll", status |-> 0, res |-> ""]
        ELSE [r |-> res, err |-> "nil", status |-> 0, res |-> ""]

Call_pdRequest ==
    /\ pc = "call"
    /\ \E step \in {"none", "url.Parse", "NewRequestWithContext", "Do"},
          StatusCode \in StatusCodes, readOk \in BOOLEAN :
        ret' = [f |-> "pdRequest", step |-> step, StatusCode |-> StatusCode,
                readOk |-> readOk, out |-> pdRequest(step, StatusCode, readOk)]
    /\ pc' = "return"
    /\ UNCHANGED <<version, newVars>>

CallNext ==
    \/ NewPdController
    \/ Call_pdRequest
    \/ Call_parseVersion
    \/ Call_getClusterVersionWith
    \/ Call_getRegionCountWith
    \/ Call_listSchedulersWith
    \/ Call_GetPDScheduleConfig
    \/ Call_doPauseSchedulers
    \/ Call_doUpdatePDScheduleConfig

CallSpec == CallInit /\ [][CallNext]_vars

\* ------------------------------------------------------------- properties

Running(s) == task[s].pc \notin {"none", "exited"}

Range(f) == {f[i] : i \in DOMAIN f}

\* C1: on a control plane where every request succeeds, after a successful
\* RemoveSchedulers and its undo, every overridden config key is back at the
\* value it had before and every scheduler that was paused is active again.
RoundTripRestores ==
    (pc = "undone" /\ ~undo.nop /\ err = "nil" /\ h.allOk)
        => /\ \A k \in h.overridden :
                /\ k \in DOMAIN Effective(cpPerm, cpTmp)
                /\ Effective(cpPerm, cpTmp)[k] = h.prior[k]
           /\ h.paused \cap cpPaused = {}

\* C2: resume is never stuck at the send of the stop signal: whenever resume
\* is at the send, the buffer has room or a renewal goroutine is left to
\* receive, also when none was started or the last one exited on cancellation.
ResumePassesSend ==
    (pc = "resumeSend" /\ ~chClosed)
        => (chLen < schedulerPauseChCap \/ \E s \in Sessions : Running(s))

\* C3: when the first pause pass fails after some schedulers were paused,
\* undo sends a resume request for every scheduler that had been paused.
UndoResumesPartialPause ==
    (pc = "undone" /\ h.passFailed) => h.paused \subseteq Range(h.resumeTried)

\* The keys of the override map of the current session.
OverrideKeys == DOMAIN expectPDCfg \cap DOMAIN h.captured

\* C4: when RemoveSchedulers fails after the snapshot was captured, undo
\* posts the captured value of every key of the override map.
UndoRepostsCaptured ==
    (pc = "undone" /\ ~undo.nop /\ err # "nil")
        => /\ Len(h.restorePosts) = 1
           /\ \A k \in OverrideKeys :
                /\ k \in DOMAIN h.restorePosts[1].body
                /\ h.restorePosts[1].body[k] = h.captured[k]

\* C5: in the state Close returns in, no renewal goroutine is running.
CloseTerminatesRenewal ==
    [][(~chClosed /\ chClosed') => (\A s \in Sessions : ~Running(s)')]_vars

\* C6: at most one renewal goroutine runs at any moment, and it is the one
\* of the current session.
OneRenewalTask ==
    /\ Cardinality({s \in Sessions : Running(s)}) <= 1
    /\ \A s \in Sessions : Running(s) => s = sid

\* C7: once the context is cancelled or the stop signal of its session has
\* been sent, a renewal goroutine eventually exits.
RenewalEventuallyExits ==
    \A s \in Sessions :
        (Running(s) /\ (ctxDone \/ task[s].stopSent)) ~> ~Running(s)


\* C8: a failure in the first pass (a pause request or the first ttl
\* override failing on every address) ends RemoveSchedulers with that error,
\* and the session has no renewal goroutine.
FirstPassFailureIsFatal ==
    h.passFailed
        => /\ pc \in {"held", "resumeSend", "resumeSchedulers", "restoreConfig",
                      "undone", "panic"}
           /\ err \in {"doPauseSchedulers", "doPauseConfigs"}
           /\ task[sid].pc = "none"

\* The first ttl override failed after both schedulers had been paused.
FirstTtlOverrideFailed ==
    /\ pc = "held"
    /\ err = "doPauseConfigs"
    /\ h.passFailed
    /\ Cardinality(h.paused) = 2

\* C9: undo returns an error exactly when the config-restore request failed
\* on every address, whatever became of the resume requests.
UndoFailsIffRestoreFailed ==
    pc = "undone" => (undoErr # "nil" <=> h.restoreFailed)

\* Undo has returned an error after a restore request that failed on every
\* address, all resume requests having succeeded.
RestoreFailureReported ==
    /\ pc = "undone"
    /\ h.restoreFailed
    /\ undoErr # "nil"
    /\ Len(h.resumeTried) = 2
    /\ h.resumeFailed = {}

\* C10: resume sends a request for every scheduler of the handle, in order,
\* whatever the outcomes, and returns no error: the config restore follows.
ResumeTriesEveryScheduler ==
    (pc \in {"restoreConfig", "undone"} /\ ~undo.nop)
        => /\ h.resumeTried = undo.scheduler
           /\ pc = "undone" => Len(h.restorePosts) = 1

\* Resume has returned after the request for the first of two schedulers
\* failed on every address and the second was still sent.
ResumeWentOnAfterFailure ==
    /\ pc = "restoreConfig"
    /\ Len(undo.scheduler) = 2
    /\ undo.scheduler[1] \in h.resumeFailed
    /\ h.resumeTried = undo.scheduler

\* The original reading of C11: with pause config enabled, undo's config
\* restore is two requests, a zero-ttl one and then one without ttl.
RestoreIsTwoRequests ==
    (pc = "undone" /\ ~undo.nop /\ isPauseConfigEnabled(version))
        => /\ Len(h.restorePosts) = 2
           /\ h.restorePosts[1].prefixs = <<0>>
           /\ h.restorePosts[2].prefixs = <<>>

\* C11 (amended): with pause config enabled, undo's config restore is one
\* request: the captured values posted to config/schedule?ttlSecond=0; no
\* request without ttl follows.
RestoreIsOneZeroTtlRequest ==
    (pc = "undone" /\ ~undo.nop /\ isPauseConfigEnabled(version))
        => /\ Len(h.restorePosts) = 1
           /\ h.restorePosts[1].prefixs = <<0>>
           /\ \A k \in DOMAIN h.restorePosts[1].body :
                h.restorePosts[1].body[k] = h.captured[k]

\* Undo has returned after a successful session with pause config enabled:
\* its single restore request carried ttlSecond=0 and succeeded.
RestoredWithZeroTtl ==
    /\ pc = "undone"
    /\ isPauseConfigEnabled(version)
    /\ err = "nil"
    /\ h.overridden # {}
    /\ Len(h.restorePosts) = 1
    /\ h.restorePosts[1].prefixs = <<0>>
    /\ ~h.restoreFailed

\* C12: after a successful RemoveSchedulers, the keys undo re-applies are
\* exactly the keys RemoveSchedulers overrode, each with its captured value.
RestoreKeysAreOverrideKeys ==
    (pc = "undone" /\ ~undo.nop /\ err = "nil")
        => /\ Len(h.restorePosts) = 1
           /\ DOMAIN h.restorePosts[1].body = h.overridden
           /\ \A k \in h.overridden : h.restorePosts[1].body[k] = h.captured[k]

\* C13: every key of the body of a config-restore request was in the config
\* the control plane answered at capture.
RestoreInventsNoKey ==
    \A i \in 1..Len(h.restorePosts) :
        DOMAIN h.restorePosts[i].body \subseteq DOMAIN h.captured

\* Undo has posted a restore whose body holds some keys of the policy table
\* and lacks the others, which the captured config lacked.
RestoredOnlyCapturedKeys ==
    /\ pc = "undone"
    /\ Len(h.restorePosts) = 1
    /\ DOMAIN h.restorePosts[1].body # {}
    /\ \E k \in DOMAIN expectPDCfg :
            k \notin DOMAIN h.captured /\ k \notin DOMAIN h.restorePosts[1].body

\* The policy of a key, read off the table of the specification.
PolicyOf(k) ==
    CASE k \in {"max-merge-region-keys", "max-merge-region-size"} -> "SetZero"
      [] k \in {"leader-schedule-limit", "region-schedule-limit",
                "max-snapshot-count"} -> "MultiplyByLiveStoreCount"
      [] k = "enable-location-replacement" -> "SetFalseString"
      [] OTHER -> "none"

\* C14: the keys of the override map are exactly the keys of the policy table
\* present in the fetched config; a SetZero key maps to the number 0, a
\* SetFalseString key to the string "false", a MultiplyByLiveStoreCount key
\* to its value times the number of stores, capped at 40.
OverrideMapFollowsPolicy ==
    ret.f = "disablePDCfg"
        => /\ DOMAIN ret.m = {k \in DOMAIN scheduleCfg : PolicyOf(k) # "none"}
           /\ \A k \in DOMAIN ret.m :
                CASE PolicyOf(k) = "SetZero" -> ret.m[k].t = "num" /\ ret.m[k].n = 0
                  [] PolicyOf(k) = "SetFalseString" ->
                        ret.m[k].t = "str" /\ ret.m[k].s = "false"
                  [] OTHER ->
                        /\ ret.m[k].t = "num"
                        /\ ret.m[k].n = IF scheduleCfg[k].n * stores > 40
                                        THEN 40 ELSE scheduleCfg[k].n * stores

\* The override map of a config holding every key of the table and one key
\* outside it, with three stores.
OverrideMapOfFullConfig ==
    /\ ret.f = "disablePDCfg"
    /\ stores = 3
    /\ Cardinality(DOMAIN scheduleCfg) = 7
    /\ Cardinality(DOMAIN ret.m) = 6
    /\ ret.m["enable-location-replacement"].s = "false"
    /\ ret.m["leader-schedule-limit"].n = 12

\* C15: the override of leader-schedule-limit v with n stores is v*n when
\* that is at most 40 and 40 otherwise: 12 for 4 and 3, 40 for 4 and 20.
MulStoresCountIsCapped ==
    (ret.f = "disablePDCfg" /\ "leader-schedule-limit" \in DOMAIN scheduleCfg)
        => LET v == scheduleCfg["leader-schedule-limit"].n
               o == ret.m["leader-schedule-limit"].n
           IN  /\ o <= 40
               /\ v * stores <= 40 => o = v * stores
               /\ v * stores >= 40 => o = 40
               /\ (v = 4 /\ stores = 3) => o = 12
               /\ (v = 4 /\ stores = 20) => o = 40

\* The override of leader-schedule-limit 4 with 20 stores has been computed.
MulStoresCountHitTheCap ==
    /\ ret.f = "disablePDCfg"
    /\ stores = 20
    /\ DOMAIN scheduleCfg = {"leader-schedule-limit"}
    /\ scheduleCfg["leader-schedule-limit"].n = 4
    /\ ret.m["leader-schedule-limit"].n = 40

\* C20: isPauseConfigEnabled is true exactly of the versions that are at
\* least 4.0.8, major before minor before patch: true of 4.0.8, false of 4.0.7.
PauseConfigEnabledFrom408 ==
    ret.f = "isPauseConfigEnabled"
        => /\ ret.b <=> (version[1] * 10000 + version[2] * 100 + version[3] >= 40008)
           /\ version = <<4, 0, 8>> => ret.b
           /\ version = <<4, 0, 7>> => ~ret.b

\* isPauseConfigEnabled has returned true of version 4.0.8.
PauseConfigEnabledAt408 ==
    /\ ret.f = "isPauseConfigEnabled"
    /\ version = <<4, 0, 8>>
    /\ ret.b

\* C16: with pause config enabled, every override request of RemoveSchedulers
\* carries ttlSecond=300, a successful RemoveSchedulers has paused the
\* schedulers, applied the override and started a goroutine that renews both,
\* and the permanent config is never written: it stays the config the
\* cluster started with.
TtlOverridesOnly ==
    isPauseConfigEnabled(version)
        => /\ \A i \in 1..Len(h.overridePosts) : h.overridePosts[i] = <<300>>
           /\ cpPerm \in {c.cfg : c \in Clusters}
           /\ \A s \in Sessions :
                task[s].pc # "none" /\ task[s].pc # "exited"
                    => ~task[s].schedulerCfg.isNil
           /\ (pc = "held" /\ err = "nil")
                => /\ task[sid].pc # "none"
                   /\ Len(h.overridePosts) = 1
                   /\ h.paused = Range(undo.scheduler)

\* With pause config enabled and the session held, a tick of its goroutine
\* has renewed the pauses and is about to renew the ttl override.
TickRenewsTtlOverride ==
    /\ isPauseConfigEnabled(version)
    /\ pc = "held"
    /\ err = "nil"
    /\ Cardinality(cpPaused) = 2
    /\ DOMAIN cpTmp # {}
    /\ task[sid].pc = "doPauseConfigs"

\* C17: on a control plane older than 4.0.8, RemoveSchedulers posts the
\* override once and without ttl before its first pause request, pauses
\* nothing when that post fails, and no tick posts a config override.
LegacyOverridesOnceWithoutTtl ==
    ~isPauseConfigEnabled(version)
        => /\ Len(h.overridePosts) <= 1
           /\ \A i \in 1..Len(h.overridePosts) : h.overridePosts[i] = <<>>
           /\ pc = "doUpdatePDScheduleConfig" => h.pauseTried = {}
           /\ h.pauseTried # {}
                => Len(h.overridePosts) = 1 /\ err # "doUpdatePDScheduleConfig"
           /\ err = "doUpdatePDScheduleConfig"
                => h.pauseTried = {} /\ task[sid].pc = "none"
           /\ \A s \in Sessions : task[s].pc # "doPauseConfigs"
           /\ DOMAIN cpTmp = {}

\* On a legacy control plane the permanent override was posted, both
\* schedulers were paused, and a tick is renewing the pauses.
LegacyTickRenewsPausesOnly ==
    /\ ~isPauseConfigEnabled(version)
    /\ pc = "held"
    /\ err = "nil"
    /\ Len(h.overridePosts) = 1
    /\ Cardinality(h.paused) = 2
    /\ task[sid].pc = "doPauseSchedulers"

\* C18: every scheduler RemoveSchedulers or a tick sends a pause request
\* for, and so every scheduler that is paused, is in the allow-list and in
\* the list the control plane returned.
OnlyListedAllowedArePaused ==
    LET allowed == Schedulers \cap Range(cpSchedulers)
    IN  /\ h.pauseTried \subseteq allowed
        /\ cpPaused \subseteq allowed
        /\ \A s \in Sessions :
                task[s].pc = "doPauseSchedulers"
                    => task[s].schedulers[task[s].idx] \in allowed

\* The two allow-listed schedulers of a cluster that also runs
\* evict-leader-scheduler are paused, and only those.
PausedAllowedOnly ==
    /\ pc = "held"
    /\ "evict-leader-scheduler" \in Range(cpSchedulers)
    /\ cpPaused = {"balance-leader-scheduler", "balance-region-scheduler"}

\* C19: when RemoveSchedulers fails at the store listing or at the config
\* fetch, it returns Nop with the error and has sent no POST: no pause, no
\* override, and the handle, if invoked, sends no resume and no restore.
FailureBeforeCaptureChangesNothing ==
    (pc \in {"held", "undone"} /\ err \in {"GetAllStores", "GetPDScheduleConfig"})
        => /\ undo.nop
           /\ h.pauseTried = {}
           /\ h.overridePosts = <<>>
           /\ h.resumeTried = <<>>
           /\ h.restorePosts = <<>>
           /\ task[sid].pc = "none"

\* RemoveSchedulers has returned Nop after the config fetch failed on every
\* address.
ConfigFetchFailed ==
    /\ pc = "held"
    /\ err = "GetPDScheduleConfig"
    /\ undo.nop
    /\ h.captured = EmptyMap

\* A string that cannot be three dotted numbers: fewer than two dots, or
\* more than two and neither "-" nor "+" to split a tail off.
NotDottedTri(str) ==
    LET dots == Cardinality({i \in 1..Len(str) : str[i] = "."})
    IN  \/ dots < 2
        \/ dots > 2 /\ \A i \in 1..Len(str) : str[i] \notin {"-", "+"}

\* C21: a version string that does not parse yields version 0.0.0; it never
\* makes construction fail, and the controller built uses the legacy
\* strategy.
UnparseableVersionFallsBack ==
    /\ (ret.f = "parseVersion" /\ NotDottedTri(ret.versionBytes))
            => ret.version = <<0, 0, 0>>
    /\ (ret.f = "NewPdController" /\ NotDottedTri(ret.versionBytes)
            /\ \E i \in 1..Len(ret.resp) : ret.resp[i])
            => /\ ret.clientOk => ret.err = "nil"
               /\ ret.err = "nil"
                    => version = <<0, 0, 0>> /\ ~isPauseConfigEnabled(version)

\* A controller has been built on the answer "not-a-version".
BuiltOnNotAVersion ==
    /\ ret.f = "NewPdController"
    /\ ret.versionBytes = <<"n", "o", "t", "-", "a", "-", "v", "e", "r", "s", "i", "o", "n">>
    /\ ret.err = "nil"
    /\ version = <<0, 0, 0>>

\* C22: construction asks the configured addresses in order, each with a
\* scheme, stops at the first that answers, and fails with the connectivity
\* error exactly when none answers.
ProbesUntilFirstAnswer ==
    ret.f = "NewPdController"
        => LET answering == {i \in 1..Len(ret.resp) : ret.resp[i]}
           IN  /\ \A i \in 1..Len(ret.addrs) :
                    /\ ret.addrs[i].host = ret.pdAddrs[i].host
                    /\ ret.addrs[i].scheme \in {"http://", "https://"}
               /\ answering = {} => Len(ret.addrs) = Len(ret.pdAddrs)
               /\ answering # {}
                    => /\ Len(ret.addrs) \in answering
                       /\ \A i \in answering : Len(ret.addrs) <= i
               /\ ret.err = "ErrPDUpdateFailed" <=> answering = {}

\* Of three addresses the first did not answer, the second did, and the
\* third was not asked.
StoppedAtSecondAddress ==
    /\ ret.f = "NewPdController"
    /\ Len(ret.pdAddrs) = 3
    /\ ~ret.resp[1] /\ ret.resp[2] /\ ret.resp[3]
    /\ Len(ret.addrs) = 2
    /\ ret.err = "nil"

\* The operations that fail over between the addresses.
FailoverOps == {"getClusterVersionWith", "getRegionCountWith", "listSchedulersWith",
                "GetPDScheduleConfig", "doPauseSchedulers", "doUpdatePDScheduleConfig"}

\* The addresses are tried in their order, and none after the first answer.
TriedInOrderUntilAnswer ==
    /\ \A i \in 1..Len(ret.tried) : ret.tried[i] = i
    /\ \A i \in 1..Len(ret.tried) - 1 : ~ret.resp[i]
    /\ Len(ret.tried) = Len(addrs) \/ ret.resp[Len(ret.tried)]

\* C23 as stated: every failover operation tries the addresses in order,
\* none after the first success, and returns the error of the last address
\* tried when all fail.
FailoverReturnsLastError ==
    ret.f \in FailoverOps
        => /\ TriedInOrderUntilAnswer
           /\ ret.resp = AllFail => ret.err = requestErr(Len(addrs))

\* C23, amended: the same order for all six operations; when all addresses
\* fail, updating the schedule config returns ErrPDUpdateFailed and the other
\* five return the error of the last address tried.
FailoverReturnsLastOrUpdateFailed ==
    ret.f \in FailoverOps
        => /\ TriedInOrderUntilAnswer
           /\ ret.resp = AllFail
                => ret.err = IF ret.f = "doUpdatePDScheduleConfig"
                             THEN ErrPDUpdateFailed
                             ELSE requestErr(Len(addrs))

\* Listing the schedulers failed at every address and returned the error of
\* the last one.
ListFailedEverywhere ==
    /\ ret.f = "listSchedulersWith"
    /\ ret.resp = AllFail
    /\ ret.tried = <<1, 2>>
    /\ ret.err = requestErr(2)

\* C24 as stated: a response is answered with ErrPDInvalidResponse, carrying
\* its status and body, exactly when its status is not 2xx; every 2xx status
\* is a success.
Non2xxIsFailure ==
    (ret.f = "pdRequest" /\ ret.step = "none")
        => LET is2xx == ret.StatusCode >= 200 /\ ret.StatusCode <= 299
           IN  /\ ret.out.err = "ErrPDInvalidResponse" <=> ~is2xx
               /\ ret.out.err = "ErrPDInvalidResponse"
                    => ret.out.status = ret.StatusCode /\ ret.out.res # ""
               /\ (is2xx /\ ret.readOk) => ret.out.err = "nil"

\* C24, amended: a response is answered with ErrPDInvalidResponse, carrying
\* its status and body, exactly when its status is not 200; 200 alone is a
\* success.
NonOKIsFailure ==
    (ret.f = "pdRequest" /\ ret.step = "none")
        => /\ ret.out.err = "ErrPDInvalidResponse" <=> ret.StatusCode # 200
           /\ ret.out.err = "ErrPDInvalidResponse"
                => ret.out.status = ret.StatusCode /\ ret.out.res # ""
           /\ (ret.StatusCode = 200 /\ ret.readOk)
                => ret.out.err = "nil" /\ ret.out.r = "body"

\* A response with status 204 was answered with ErrPDInvalidResponse.
NoContentIsFailure ==
    /\ ret.f = "pdRequest"
    /\ ret.step = "none"
    /\ ret.StatusCode = 204
    /\ ret.out.err = "ErrPDInvalidResponse"
    /\ ret.out.status = 204

\* C25: whatever the policy and the calls made on it, the delay returned is
\* the smaller of the current delay and maxDelay, so never above maxDelay.
ReturnsMinOfDelayAndMax ==
    ret.f = "NextBackoff"
        => /\ ret.d \in {bo.delayTime, bo.maxDelayTime}
           /\ ~Greater(ret.d, bo.delayTime)
           /\ ~Greater(ret.d, bo.maxDelayTime)

\* A call returned maxDelayTime, the current delay being above it.
ReturnedTheCap ==
    /\ ret.f = "NextBackoff"
    /\ Greater(bo.delayTime, bo.maxDelayTime)
    /\ ret.d = bo.maxDelayTime
    /\ ret.d = Duration(1000000000)

RECURSIVE MinDoubled(_, _, _)
\* min(d * 2^k, max) for 0 <= d and 0 <= max, computed without leaving the
\* numbers up to 2 * max.
MinDoubled(d, k, max) ==
    IF d > max THEN max
    ELSE IF k = 0 THEN d
    ELSE MinDoubled(2 * d, k - 1, max)

\* C26: the k-th consecutive transient call on a fresh classifying policy
\* made with delay d returns min(d * 2^k, maxDelay).
KthTransientReturnsMinDoubled ==
    (ret.f = "NextBackoff" /\ bo.kind = "importerBackoffer" /\ ret.k >= 1)
        => ret.d = Duration(MinDoubled(ret.delayTime, ret.k, ret.maxDelayTime))

\* The errors the claims call retryable-transient.
IsTransient(e) ==
    \/ e.cause \in {"ErrKVEpochNotMatch", "ErrKVDownloadFailed", "ErrKVIngestFailed"}
    \/ e.cause \in {"other", "nil"} /\ e.code \in {"Unavailable", "Aborted"}

\* C27: a call with a retryable-transient error takes exactly one from the
\* attempts and leaves maxDelay as it was.
TransientTakesOneAttempt ==
    [][(ret'.f = "NextBackoff" /\ bo'.kind = "importerBackoffer" /\ ret' # ret
            /\ IsTransient(ret'.err))
        => /\ bo'.attempt = bo.attempt - 1
           /\ bo'.maxDelayTime = bo.maxDelayTime]_vars

\* The import policy after one epoch-mismatch and one Unavailable error.
TwoTransientCallsMade ==
    /\ ret.f = "NextBackoff"
    /\ bo.kind = "importerBackoffer"
    /\ ret.err = [cause |-> "other", code |-> "Unavailable"]
    /\ ret.k = 2
    /\ bo.attempt = 14

\* C28: a call with an expected-terminal error, or with an error that is
\* not recognized (nil included), leaves delay and attempts at 0 and
\* returns 0, whatever they were before.
TerminalOrUnknownZeroes ==
    (ret.f = "NextBackoff" /\ bo.kind = "importerBackoffer" /\ ~IsTransient(ret.err))
        => /\ bo.delayTime = <<0, 0, 0, 0>>
           /\ bo.attempt = 0
           /\ ret.d = <<0, 0, 0, 0>>

\* A nil error given at the fifth call zeroed the policy.
NilErrorZeroed ==
    /\ ret.f = "NextBackoff"
    /\ bo.kind = "importerBackoffer"
    /\ ret.err.cause = "nil"
    /\ ret.calls = 5
    /\ bo.attempt = 0
    /\ bo.delayTime = <<0, 0, 0, 0>>

\* C29: the control-plane policy takes every error as transient: each call
\* doubles the delay and takes one from the attempts whatever the error, and
\* never sets them to 0 as the classifying policy does.
PDReqRetriesEveryError ==
    [][(ret'.f = "NextBackoff" /\ bo'.kind = "pdReqBackoffer" /\ ret' # ret)
        => /\ bo'.attempt = bo.attempt - 1
           /\ bo'.delayTime = Double(bo.delayTime)
           /\ bo'.maxDelayTime = bo.maxDelayTime
           /\ ret'.calls <= 5
                => /\ bo'.delayTime = Duration(50000000 * 2^(ret'.calls))
                   /\ bo'.attempt = 16 - ret'.calls]_vars

\* The control-plane policy was given a range-is-empty error at its second
\* call and went on doubling.
PDReqRetriedTerminalError ==
    /\ ret.f = "NextBackoff"
    /\ bo.kind = "pdReqBackoffer"
    /\ ret.err.cause = "ErrKVRangeIsEmpty"
    /\ ret.calls = 2
    /\ bo.attempt = 14
    /\ bo.delayTime = Duration(200000000)

\* C30: the preconfigured policies start with 16 attempts and 10ms up to 1s
\* (ingestion), 8 attempts and 10ms up to 1s (download), 16 attempts and 50ms
\* up to 500ms (control plane).
PreconfiguredPolicies ==
    /\ ret.f = "newImportSSTBackoffer"
            => /\ bo.attempt = 16
               /\ bo.delayTime = Duration(10000000)
               /\ bo.maxDelayTime = Duration(1000000000)
    /\ ret.f = "newDownloadSSTBackoffer"
            => /\ bo.attempt = 8
               /\ bo.delayTime = Duration(10000000)
               /\ bo.maxDelayTime = Duration(1000000000)
    /\ ret.f = "newPDReqBackoffer"
            => /\ bo.attempt = 16
               /\ bo.delayTime = Duration(50000000)
               /\ bo.maxDelayTime = Duration(500000000)

\* The download policy has just been made.
DownloadPolicyMade ==
    /\ ret.f = "newDownloadSSTBackoffer"
    /\ bo.kind = "importerBackoffer"
    /\ bo.attempt = 8

\* C38: after a successful construction the failover list holds every
\* configured address, each with a scheme, in the configured order, those
\* after the first that answered included.
AllAddressesRetained ==
    (ret.f = "NewPdController" /\ ret.err = "nil")
        => /\ Len(ret.addrs) = Len(ret.pdAddrs)
           /\ \A i \in 1..Len(ret.addrs) :
                /\ ret.addrs[i].host = ret.pdAddrs[i].host
                /\ ret.addrs[i].scheme \in {"http://", "https://"}

\* C39: zeroing is sticky on the classifying policy: from a call with an
\* expected-terminal or unrecognized error on, every call returns 0 and the
\* attempts stay at or below 0, whatever errors follow.
ZeroingIsSticky ==
    [][(ret'.f = "NextBackoff" /\ bo'.kind = "importerBackoffer" /\ ret' # ret
            /\ \/ ~IsTransient(ret'.err)
               \/ bo.delayTime = <<0, 0, 0, 0>> /\ bo.attempt <= 0)
        => /\ bo'.delayTime = <<0, 0, 0, 0>>
           /\ bo'.attempt <= 0
           /\ ret'.d = <<0, 0, 0, 0>>]_vars

\* Two transient errors followed a zeroing of the import policy.
RetriedAfterZeroing ==
    /\ ret.f = "NextBackoff"
    /\ bo.kind = "importerBackoffer"
    /\ IsTransient(ret.err)
    /\ ret.k = -1
    /\ bo.attempt = -2
    /\ ret.d = <<0, 0, 0, 0>>

\* C40: NextBackoff never returns a negative duration, whatever the number
\* of consecutive calls, on either policy.
NeverReturnsNegative ==
    ret.f = "NextBackoff" => ~Negative(ret.d)

\* C32: a failure on a renewal tick changes nothing of the session: no step
\* of a tick touches what the caller holds or ends the goroutine, a tick
\* that leaves the pause requests goes on to the config override whenever
\* there is one, and after it the goroutine is back at its select.
TickFailureIsIgnored ==
    [][\A s \in Sessions :
        (/\ task[s].pc \in {"doPauseSchedulers", "doPauseConfigs"}
         /\ <<task'[s].pc, task'[s].idx>> # <<task[s].pc, task[s].idx>>)
            => /\ <<pc, undo, err, undoErr, sid>>' = <<pc, undo, err, undoErr, sid>>
               /\ task'[s].pc \in {"doPauseSchedulers", "doPauseConfigs", "select"}
               /\ (task[s].pc = "doPauseSchedulers" /\ task'[s].pc # "doPauseSchedulers"
                        /\ ~task[s].schedulerCfg.isNil)
                    => task'[s].pc = "doPauseConfigs"
               /\ task[s].pc = "doPauseConfigs" => task'[s].pc = "select"]_vars

\* A tick whose first pause request failed is at the config override, the
\* caller holding its handle with no error.
TickWentOnAfterFailure ==
    /\ pc = "held"
    /\ err = "nil"
    /\ \E s \in Sessions :
        /\ task[s].pc = "doPauseConfigs"
        /\ task[s].idx < Len(task[s].schedulers)

\* C33: in the first pause pass the requests go to the schedulers in the
\* order given; the first scheduler whose request fails on every address
\* ends the pass with no request for a later one, and the list returned is
\* the prefix that succeeded.
PassStopsAtFirstFailure ==
    LET scheds == needRemoveSchedulers(cpSchedulers)
        tried == Cardinality(h.pauseTried)
        done == Cardinality(h.paused)
    IN  /\ tried <= Len(scheds)
        /\ h.pauseTried = {scheds[i] : i \in 1..tried}
        /\ h.paused = {scheds[i] : i \in 1..done}
        /\ done \in {tried - 1, tried}
        /\ done < tried
            => /\ h.passFailed
               /\ err = "doPauseSchedulers"
               /\ pc \notin {"doPauseSchedulers", "doPauseConfigs", "go"}
               /\ h.pauseReturned = SubSeq(scheds, 1, done)
        /\ (done = tried /\ tried = Len(scheds) /\ tried > 0)
            => h.pauseReturned = scheds

\* The first scheduler was paused and the request for the second failed.
SecondPauseFailed ==
    /\ h.passFailed
    /\ Cardinality(h.pauseTried) = 2
    /\ h.paused = {"balance-leader-scheduler"}
    /\ h.pauseReturned = <<"balance-leader-scheduler">>

\* C34: after resume has sent the stop signal of a session, the goroutine of
\* that session takes at most one further tick. The ticks counted are those
\* taken while no stop token is waiting in the channel, so that a select
\* preferring a ready ticker to a ready token is not among them.
AtMostOneTickAfterStop ==
    [][\A s \in Sessions :
        (/\ task[s].pc = "select"
         /\ task'[s].pc \in {"doPauseSchedulers", "doPauseConfigs"}
         /\ task[s].stopSent
         /\ chLen = 0 /\ ~chClosed)
            => ~task[s].lateTick]_vars

\* C35: every request succeeding, once undo has returned and the goroutine
\* of the session has exited, no scheduler of the session is paused and
\* every overridden key has the value it had before. The sessions looked at
\* are those with no goroutine of another session about and no key captured
\* as null, so that only the session's own goroutine can undo the restore.
SettledAfterUndoAndExit ==
    (/\ pc = "undone" /\ ~undo.nop /\ err = "nil" /\ h.allOk
     /\ task[sid].pc = "exited"
     /\ \A s \in Sessions : s # sid => task[s].pc = "none"
     /\ \A k \in DOMAIN h.prior : h.prior[k].t # "null")
        => /\ h.paused \cap cpPaused = {}
           /\ \A k \in h.overridden :
                /\ k \in DOMAIN Effective(cpPerm, cpTmp)
                /\ Effective(cpPerm, cpTmp)[k] = h.prior[k]

\* C36: a renewal goroutine exits only on the stop signal of its own
\* session, on cancellation or on Close.
ExitsOnlyOnOwnStop ==
    \A s \in Sessions :
        task[s].pc = "exited" => (task[s].stopSent \/ ctxDone \/ chClosed)

\* C37: an undo handle invoked after Close completes without a fault: the
\* send of resume on the closed stop channel does not panic.
NoFaultAfterClose ==
    [][(pc = "resumeSend" /\ chClosed) => pc' # "panic"]_vars

====
